---- MODULE Spec2Model ----
(***************************************************************************)
(* Cloud task orchestration core of AI Agent Studio:                       *)
(*   cloud-backend/services/task_manager.py   Task Store + Scheduler       *)
(*   cloud-backend/services/ai_processor.py   the Execute capability       *)
(*   cloud-backend/services/user_manager.py   Quota Ledger                 *)
(*   cloud-backend/services/security_manager.py  Security Gate             *)
(*   cloud-backend/main.py                    Admission Pipeline           *)
(*                                                                         *)
(* The program runs on one asyncio event loop.  A coroutine runs without   *)
(* interruption between two points where it really suspends, so one action *)
(* of this model is one such run: from a resumption to the next            *)
(* suspension.  `await` of a coroutine that never suspends (queue.put on   *)
(* an unbounded queue, update_task_progress, check_quota, ...) is not a    *)
(* suspension point.                                                       *)
(***************************************************************************)
EXTENDS Integers, Sequences, FiniteSets, TLC

\* ------------------------------------------------------------------------
\* Bounds of the model (not program constants)
\* ------------------------------------------------------------------------
MaxTasks == 3

\* max_concurrent_tasks is an instance attribute (default 5, task_manager.py:63)
\* that a deployment or a test may set; the model runs with a scaled cap so
\* that the cap binds within MaxTasks tasks.
MaxConcurrent == 2

\* datetime.utcnow() in days; the clock of the model stops at MaxClock
MaxClock == 8

\* Tasks created in the specification that lets time pass and runs the cleanup
MaxCleanTasks == 2

\* Requests admitted in the specification of the admission pipeline
MaxAdmTasks == 3

\* Requests admitted in the specification of the daily allowance
MaxDailyTasks == 11

\* time.time() in seconds; the clock of the rate limiter stops at MaxAdmClock
\* in the specification of the admission pipeline and at MaxDailyClock in that
\* of the daily allowance
MaxAdmClock == 122
MaxDailyClock == 183

\* Security events logged in the specification of the admission pipeline
MaxLog == 2

\* Largest value the model lets a counter without limit (-1) reach
MaxUnlimitedUse == 3

\* ------------------------------------------------------------------------
\* Values
\* ------------------------------------------------------------------------
Min(a, b) == IF a < b THEN a ELSE b
Max(a, b) == IF a > b THEN a ELSE b

None == "None"
NoTime == -1

PENDING == "pending"
PROCESSING == "processing"
COMPLETED == "completed"
FAILED == "failed"
CANCELLED == "cancelled"

TaskStatus == {PENDING, PROCESSING, COMPLETED, FAILED, CANCELLED}

Terminal == {COMPLETED, FAILED, CANCELLED}

VIDEO_GENERATION == "video_generation"
AUDIO_GENERATION == "audio_generation"
IMAGE_GENERATION == "image_generation"
CODE_GENERATION == "code_generation"
TEXT_GENERATION == "text_generation"

TaskType == {VIDEO_GENERATION, AUDIO_GENERATION, IMAGE_GENERATION,
             CODE_GENERATION, TEXT_GENERATION}

\* TaskManager.task_estimations
task_estimations(type) ==
    CASE type = VIDEO_GENERATION -> 180
      [] type = AUDIO_GENERATION -> 60
      [] type = IMAGE_GENERATION -> 30
      [] type = CODE_GENERATION -> 15
      [] type = TEXT_GENERATION -> 10
      [] OTHER -> 60

\* Task ids the scheduler of the model works on (uuid4 in the source: fresh
\* and unique), and all the ids the model can allocate
TaskIds == 1..MaxTasks
AllIds == 1..Max(MaxTasks, Max(MaxAdmTasks, MaxDailyTasks))

\* Inputs of the operations
SchedKinds == {VIDEO_GENERATION}
UserIds == {"u1", "u2"}

\* Identifiers of login attempts (the email of the form)
Identifiers == {"a@x", "b@x"}
SchedUsers == {"u1"}
SchedPrompt == <<"dog">>
NoParameters == <<>>
ErrorMessages == {"e1", "e2"}
ResultValues == {"r1"}

\* Days by which one step of the clock advances, and the default retention
TickDays == 8
DefaultRetentionDays == 7

VARIABLES
    tasks,                \* TaskManager.tasks: id -> Task
    task_queue,           \* TaskManager.task_queue (FIFO of ids)
    active_tasks,         \* TaskManager.active_tasks (keys; the value is the worker of the id)
    max_concurrent_tasks, \* TaskManager.max_concurrent_tasks
    processing,           \* TaskManager.processing
    loops,                \* process_queue coroutines alive, counted by position
    worker,               \* _process_single_task coroutine of each id: position and cancel request
    next_id,              \* number of ids allocated so far + 1
    now,                  \* datetime.utcnow(), in days
    executed,             \* observation: ids that were handed to Execute
    cancelled_pending,    \* observation: ids for which cancel returned true while PENDING
    cancelled_processing, \* observation: ids for which cancel returned true while PROCESSING
    raised,               \* observation: id -> message of the exception Execute raised while PROCESSING
    users,                \* UserManager.users: user_id -> User (role, quota_limits, quota_used)
    ret,                  \* observation: what the last ledger or admission call returned
    rl_now,               \* time.time() and datetime.utcnow() of the security services, in seconds
    ip_requests,          \* RateLimiter.ip_requests: ip -> timestamps of the recorded requests
    user_requests,        \* RateLimiter.user_requests: user_id -> timestamps
    rl_blocked_ips,       \* RateLimiter.blocked_ips: ip -> unblock time
    rl_blocked_users,     \* RateLimiter.blocked_users: user_id -> unblock time
    security_events,      \* SecurityManager.security_events
    blocked_ips,          \* SecurityManager.blocked_ips
    rl_rules,             \* RateLimiter.rules: rule name -> RateLimitRule
    failed_attempts,      \* SecurityManager.failed_attempts: identifier -> times of the failures kept
    rl_history            \* observation: the calls made by RateCheck and RecordFailedLogin, in order

schedVars == <<tasks, task_queue, active_tasks, max_concurrent_tasks, processing,
               loops, worker, next_id, now, executed, cancelled_pending, cancelled_processing, raised>>

secVars == <<rl_now, ip_requests, user_requests, rl_blocked_ips, rl_blocked_users,
             security_events, blocked_ips, rl_rules, failed_attempts, rl_history>>

admVars == <<users, ret, secVars>>

vars == <<schedVars, admVars>>

\* ------------------------------------------------------------------------
\* Task Store operations (task_manager.py)
\* ------------------------------------------------------------------------
\* Task(...) as built by create_task
NewTask(type, user_id, prompt, parameters, t) ==
    [type |-> type, status |-> PENDING, user_id |-> user_id,
     prompt |-> prompt, parameters |-> parameters,
     created_at |-> t, updated_at |-> t, started_at |-> NoTime,
     completed_at |-> NoTime, progress |-> 0, result |-> None, error |-> None,
     estimated_duration |-> task_estimations(type)]

\* A faulty update_task_progress that stores the progress it is given
update_task_progress_unclamped(ts, id, progress, status, t) ==
    IF id \notin DOMAIN ts THEN ts
    ELSE LET p1 == [ts[id] EXCEPT !.progress = progress, !.updated_at = t]
             p2 == IF status = None THEN p1
                   ELSE LET s1 == [p1 EXCEPT !.status = status]
                        IN IF status = PROCESSING /\ s1.started_at = NoTime
                              THEN [s1 EXCEPT !.started_at = t]
                           ELSE IF status \in Terminal
                              THEN [s1 EXCEPT !.completed_at = t]
                           ELSE s1
         IN [ts EXCEPT ![id] = p2]

\* update_task_progress(task_id, progress, status): the new task table
\* (status = None stands for the default argument)
update_task_progress(ts, id, progress, status, t) ==
    IF id \notin DOMAIN ts THEN ts
    ELSE LET p1 == [ts[id] EXCEPT !.progress = Max(0, Min(100, progress)),
                                  !.updated_at = t]
             p2 == IF status = None THEN p1
                   ELSE LET s1 == [p1 EXCEPT !.status = status]
                        IN IF status = PROCESSING /\ s1.started_at = NoTime
                              THEN [s1 EXCEPT !.started_at = t]
                           ELSE IF status \in Terminal
                              THEN [s1 EXCEPT !.completed_at = t]
                           ELSE s1
         IN [ts EXCEPT ![id] = p2]

\* A faulty complete_task that does not store the result: C2 must tell it
\* from the real one
complete_task_without_result(ts, id, result, t) ==
    IF id \notin DOMAIN ts THEN ts
    ELSE [ts EXCEPT ![id] = [@ EXCEPT !.status = COMPLETED, !.progress = 100,
                                      !.completed_at = t, !.updated_at = t]]

\* complete_task: the new task table (the registry entry is removed by the caller of this operator)
complete_task(ts, id, result, t) ==
    IF id \notin DOMAIN ts THEN ts
    ELSE [ts EXCEPT ![id] = [@ EXCEPT !.status = COMPLETED, !.progress = 100,
                                      !.result = result, !.completed_at = t,
                                      !.updated_at = t]]

\* A faulty fail_task that stores a fixed text instead of the exception's
\* message: C10 must tell it from the real one
fail_task_fixed_text(ts, id, error, t) ==
    IF id \notin DOMAIN ts THEN ts
    ELSE [ts EXCEPT ![id] = [@ EXCEPT !.status = FAILED, !.error = "Task failed",
                                      !.completed_at = t, !.updated_at = t]]

\* fail_task: the new task table
fail_task(ts, id, error, t) ==
    IF id \notin DOMAIN ts THEN ts
    ELSE [ts EXCEPT ![id] = [@ EXCEPT !.status = FAILED, !.error = error,
                                      !.completed_at = t, !.updated_at = t]]

\* Top of the `while True` of process_queue: the capacity test decides where
\* the loop suspends next (asyncio.sleep(1) or wait_for(queue.get(), 5.0))
LoopTop(active, cap) ==
    IF Cardinality(active) >= cap THEN "sleep" ELSE "get"

\* Faulty checkpoints, reported out of order
Checkpoints_unordered(type) == <<30, 10, 95>>

\* Progress checkpoints of AIProcessor._process_*_generation before and after the model call
Checkpoints(type) ==
    CASE type = VIDEO_GENERATION -> <<10, 30, 95>>
      [] type = AUDIO_GENERATION -> <<15, 35, 90>>
      [] type = IMAGE_GENERATION -> <<20, 40, 90>>
      [] type = CODE_GENERATION -> <<25, 45, 90>>
      [] OTHER -> <<30, 50, 90>>

LoopsAlive == loops.scheduled + loops.get + loops.sleep + loops.timedout

\* ------------------------------------------------------------------------
\* Quota Ledger (user_manager.py)
\* ------------------------------------------------------------------------
USER == "user"
PREMIUM == "premium"
ADMIN == "admin"

UserRole == {USER, PREMIUM, ADMIN}

\* UserManager.default_quotas
default_quotas(role) ==
    CASE role = USER ->
           [daily_tasks |-> 10, monthly_storage_mb |-> 100, concurrent_tasks |-> 2,
            video_generation |-> 2, audio_generation |-> 5, image_generation |-> 10,
            code_generation |-> 20, text_generation |-> 50]
      [] role = PREMIUM ->
           [daily_tasks |-> 100, monthly_storage_mb |-> 1000, concurrent_tasks |-> 5,
            video_generation |-> 20, audio_generation |-> 50, image_generation |-> 100,
            code_generation |-> 200, text_generation |-> 500]
      [] role = ADMIN ->
           [daily_tasks |-> -1, monthly_storage_mb |-> -1, concurrent_tasks |-> -1,
            video_generation |-> -1, audio_generation |-> -1, image_generation |-> -1,
            code_generation |-> -1, text_generation |-> -1]

\* dict.get(key, default)
Get(d, key, default) == IF key \in DOMAIN d THEN d[key] ELSE default

\* User(...) as built by create_user
NewUser(role) ==
    [role |-> role,
     quota_limits |-> default_quotas(role),
     quota_used |-> [key \in DOMAIN default_quotas(role) |-> 0]]

\* A faulty check_quota that refuses a request reaching the limit exactly and
\* treats -1 as any other limit
check_quota_strict(us, user_id, quota_type, amount) ==
    IF user_id \notin DOMAIN us THEN FALSE
    ELSE LET limit == Get(us[user_id].quota_limits, quota_type, 0)
             used == Get(us[user_id].quota_used, quota_type, 0)
         IN (used + amount) < limit

\* UserManager.check_quota
check_quota(us, user_id, quota_type, amount) ==
    IF user_id \notin DOMAIN us THEN FALSE
    ELSE LET limit == Get(us[user_id].quota_limits, quota_type, 0)
             used == Get(us[user_id].quota_used, quota_type, 0)
         IN IF limit = -1 THEN TRUE ELSE (used + amount) <= limit

\* A faulty consume_quota that adds without checking: C7 must tell it from
\* the real one
consume_quota_unchecked(us, user_id, quota_type, amount) ==
    IF user_id \notin DOMAIN us THEN us
    ELSE [us EXCEPT ![user_id].quota_used =
             (quota_type :> (Get(@, quota_type, 0) + amount)) @@ @]

\* A faulty consume_quota that, when the amount does not fit, consumes what
\* is left of the allowance
consume_quota_partial(us, user_id, quota_type, amount) ==
    IF user_id \notin DOMAIN us THEN us
    ELSE IF check_quota(us, user_id, quota_type, amount)
       THEN [us EXCEPT ![user_id].quota_used =
                (quota_type :> (Get(@, quota_type, 0) + amount)) @@ @]
       ELSE [us EXCEPT ![user_id].quota_used =
                (quota_type :> Max(Get(@, quota_type, 0),
                                   Get(us[user_id].quota_limits, quota_type, 0))) @@ @]

\* UserManager.consume_quota: the new user table (the call returns what
\* check_quota returns)
consume_quota(us, user_id, quota_type, amount) ==
    IF ~check_quota(us, user_id, quota_type, amount) THEN us
    ELSE [us EXCEPT ![user_id].quota_used =
             (quota_type :> (Get(@, quota_type, 0) + amount)) @@ @]

\* A faulty sweep that sets every counter to 0
reset_quotas_every_counter(us, quota_types) ==
    [u \in DOMAIN us |->
        [us[u] EXCEPT !.quota_used = [key \in DOMAIN @ |-> 0]]]

\* reset_daily_quotas / reset_monthly_quotas: the counters named in
\* quota_types are set to 0 for every user that has them
reset_quotas(us, quota_types) ==
    [u \in DOMAIN us |->
        [us[u] EXCEPT !.quota_used =
            [key \in DOMAIN @ |-> IF key \in quota_types THEN 0 ELSE @[key]]]]

\* What the observation variable holds after a call
RET_TRUE == "True"
RET_FALSE == "False"

BoolRet(b) == IF b THEN RET_TRUE ELSE RET_FALSE

\* ------------------------------------------------------------------------
\* Security Gate (security_manager.py)
\* ------------------------------------------------------------------------

\* Texts are sequences of tokens; a token is a word or phrase that one of the
\* validator's patterns matches, a harmless word, or a line break.
NEWLINE == "\n"

\* InputValidator.sql_injection_patterns, xss_patterns,
\* command_injection_patterns, profanity_words, suspicious_keywords: the
\* tokens each list matches.  "cat" is a harmless word to a reader but is
\* matched by \b(rm|ls|cat|wget|curl|nc|telnet|ssh)\b.
SqlTokens == {"select", "drop"}
XssTokens == {"javascript:"}
CmdTokens == {"cat", ";"}
ProfanityTokens == {"badword1"}
SuspiciousTokens == {"hack"}

\* jailbreak_patterns and harmful_patterns of validate_prompt
JailbreakTokens == {"ignore previous instructions", "pretend you are", "roleplay as",
                    "forget everything", "new instructions:", "system prompt:",
                    "developer mode"}
HarmfulTokens == {"bypass security"}

\* The three patterns _filter_prompt removes, in its order
FilteredPatterns == <<"ignore previous instructions", "pretend you are", "roleplay as">>

\* Number of characters of a token ("filler6000" is 6000 harmless characters)
TokenLen(tok) == IF tok = "filler6000" THEN 6000 ELSE 10

RECURSIVE TextLen(_)
TextLen(text) == IF text = <<>> THEN 0 ELSE TokenLen(Head(text)) + TextLen(Tail(text))

Range(seq) == {seq[i] : i \in DOMAIN seq}

\* InputValidator.validate_text_input
validate_text_input(text, max_length) ==
    IF text = <<>> THEN [valid |-> TRUE, threats |-> <<>>]
    ELSE IF TextLen(text) > max_length
    THEN [valid |-> FALSE, threats |-> <<"Text exceeds maximum length">>]
    ELSE LET has(toks) == Range(text) \cap toks # {}
             threats ==
                 (IF has(SqlTokens) THEN <<"Potential SQL injection detected">> ELSE <<>>)
                 \o (IF has(XssTokens) THEN <<"Potential XSS attack detected">> ELSE <<>>)
                 \o (IF has(CmdTokens) THEN <<"Potential command injection detected">> ELSE <<>>)
                 \o (IF has(ProfanityTokens) THEN <<"Inappropriate content detected">> ELSE <<>>)
                 \o (IF has(SuspiciousTokens) THEN <<"Suspicious keywords detected">> ELSE <<>>)
         IN [valid |-> threats = <<>>, threats |-> threats]

\* re.sub(pattern + ".*", "", text): on every line, drop everything from the
\* first match of the pattern to the end of the line
RECURSIVE CutPattern(_, _, _)
CutPattern(text, pattern, cutting) ==
    IF text = <<>> THEN <<>>
    ELSE LET h == Head(text)
         IN IF h = NEWLINE THEN <<h>> \o CutPattern(Tail(text), pattern, FALSE)
            ELSE IF cutting \/ h = pattern THEN CutPattern(Tail(text), pattern, TRUE)
            ELSE <<h>> \o CutPattern(Tail(text), pattern, FALSE)

\* str.strip()
RECURSIVE Strip(_)
Strip(text) ==
    IF text = <<>> THEN <<>>
    ELSE IF Head(text) = NEWLINE THEN Strip(Tail(text))
    ELSE IF text[Len(text)] = NEWLINE THEN Strip(SubSeq(text, 1, Len(text) - 1))
    ELSE text

\* SecurityManager._filter_prompt
_filter_prompt(prompt) ==
    Strip(CutPattern(CutPattern(CutPattern(prompt, FilteredPatterns[1], FALSE),
                                FilteredPatterns[2], FALSE),
                     FilteredPatterns[3], FALSE))

\* SecurityManager.validate_prompt
validate_prompt(prompt) ==
    LET validation == validate_text_input(prompt, 5000)
        threats == validation.threats
                   \o (IF Range(prompt) \cap JailbreakTokens # {}
                          THEN <<"Potential AI manipulation attempt detected">> ELSE <<>>)
                   \o (IF Range(prompt) \cap HarmfulTokens # {}
                          THEN <<"Request for harmful content detected">> ELSE <<>>)
    IN [valid |-> threats = <<>>,
        threats |-> threats,
        filtered_prompt |-> IF threats # <<>> THEN _filter_prompt(prompt) ELSE prompt]

\* RateLimiter.rules
rules(rule_name) ==
    CASE rule_name = "api_general" ->
           [requests_per_window |-> 100, window_seconds |-> 3600, burst_limit |-> 10,
            block_duration_seconds |-> 300]
      [] rule_name = "auth" ->
           [requests_per_window |-> 5, window_seconds |-> 300, burst_limit |-> 2,
            block_duration_seconds |-> 900]
      [] rule_name = "generation" ->
           [requests_per_window |-> 10, window_seconds |-> 60, burst_limit |-> 3,
            block_duration_seconds |-> 120]
      [] rule_name = "upload" ->
           [requests_per_window |-> 20, window_seconds |-> 3600, burst_limit |-> 5,
            block_duration_seconds |-> 600]

RuleNames == {"api_general", "auth", "generation", "upload"}

\* The words of _get_rate_limit_rule that occur in an endpoint's path
EndpointWords(endpoint) ==
    CASE endpoint = "/api/v1/generate/video" -> {"generate"}
      [] endpoint = "/api/v1/generate/image" -> {"generate"}
      [] endpoint = "/api/v1/generate/code" -> {"generate"}
      [] endpoint = "/api/v1/generate/audio" -> {"generate"}
      [] endpoint = "/api/v1/auth/login" -> {"auth", "login"}
      [] endpoint = "/api/v1/upload" -> {"upload"}
      [] OTHER -> {}

\* SecurityManager._get_rate_limit_rule
_get_rate_limit_rule(endpoint) ==
    LET in(word) == word \in EndpointWords(endpoint)
    IN IF in("auth") \/ in("login") THEN "auth"
       ELSE IF in("generate") \/ in("create") THEN "generation"
       ELSE IF in("upload") THEN "upload"
       ELSE "api_general"

\* dict without one key
Remove(d, key) == [k \in (DOMAIN d) \ {key} |-> d[k]]

\* The state of the RateLimiter as one record
RateLimiterState ==
    [ip_requests |-> ip_requests, user_requests |-> user_requests,
     blocked_ips |-> rl_blocked_ips, blocked_users |-> rl_blocked_users,
     rules |-> rl_rules]

\* A counter that keeps the old requests in the queue
_count_requests_keeps_old(request_queue, window_start) == request_queue

\* RateLimiter._count_requests: the queue after the old requests are popped
\* (the count it returns is the length of this queue)
RECURSIVE _count_requests(_, _)
_count_requests(request_queue, window_start) ==
    IF request_queue # <<>> /\ Head(request_queue) < window_start
       THEN _count_requests(Tail(request_queue), window_start)
       ELSE request_queue

\* An is_blocked that keeps the expired blocks it meets
is_blocked_keeps_expired(rl, ip, user_id, t) ==
    [blocked |-> \/ ip \in DOMAIN rl.blocked_ips /\ t < rl.blocked_ips[ip]
                 \/ user_id # None /\ user_id \in DOMAIN rl.blocked_users
                                   /\ t < rl.blocked_users[user_id],
     rl |-> rl]

\* RateLimiter.is_blocked: the answer and the limiter after the expired
\* blocks it met are deleted
is_blocked(rl, ip, user_id, t) ==
    LET ipKnown == ip \in DOMAIN rl.blocked_ips
        ipBlocked == ipKnown /\ t < rl.blocked_ips[ip]
        rl1 == IF ipKnown /\ ~ipBlocked
                  THEN [rl EXCEPT !.blocked_ips = Remove(@, ip)] ELSE rl
        userKnown == user_id # None /\ user_id \in DOMAIN rl.blocked_users
        userBlocked == userKnown /\ t < rl.blocked_users[user_id]
        rl2 == IF userKnown /\ ~userBlocked
                  THEN [rl1 EXCEPT !.blocked_users = Remove(@, user_id)] ELSE rl1
    IN IF ipBlocked THEN [blocked |-> TRUE, rl |-> rl]
       ELSE [blocked |-> userBlocked, rl |-> rl2]

\* RateLimiter._block_temporarily
_block_temporarily(rl, ip, user_id, duration, t) ==
    LET rl1 == [rl EXCEPT !.blocked_ips = (ip :> (t + duration)) @@ @]
    IN IF user_id # None
          THEN [rl1 EXCEPT !.blocked_users = (user_id :> (t + duration)) @@ @]
          ELSE rl1

ALLOW == "allow"
RATE_LIMIT == "rate_limit"
BLOCK_TEMPORARY == "block_temporary"

\* RateLimiter.check_rate_limit: the action it returns and the limiter it leaves
check_rate_limit(rl, rule_name, ip, user_id, t) ==
    IF rule_name \notin DOMAIN rl.rules THEN [action |-> ALLOW, rl |-> rl]
    ELSE LET b == is_blocked(rl, ip, user_id, t)
         IN IF b.blocked THEN [action |-> BLOCK_TEMPORARY, rl |-> b.rl]
            ELSE
            LET rule == rl.rules[rule_name]
                window_start == t - rule.window_seconds
                ipq == _count_requests(b.rl.ip_requests[ip], window_start)
                uq == IF user_id # None
                         THEN _count_requests(b.rl.user_requests[user_id], window_start)
                         ELSE <<>>
                max_count == Max(Len(ipq), Len(uq))
                burst == rule.burst_limit # 0 /\ max_count >= rule.burst_limit
                \* the burst test counts with _count_requests too, which pops
                \* what is older than a minute from the same queues
                ipq2 == IF burst THEN _count_requests(ipq, t - 60) ELSE ipq
                uq2 == IF burst /\ user_id # None THEN _count_requests(uq, t - 60) ELSE uq
                rl1 == [b.rl EXCEPT !.ip_requests[ip] = ipq2]
                rl2 == IF user_id # None
                          THEN [rl1 EXCEPT !.user_requests[user_id] = uq2] ELSE rl1
            IN IF burst /\ Max(Len(ipq2), Len(uq2)) >= rule.burst_limit
                  THEN [action |-> BLOCK_TEMPORARY,
                        rl |-> _block_temporarily(rl2, ip, user_id,
                                                  rule.block_duration_seconds, t)]
               ELSE IF max_count >= rule.requests_per_window
                  THEN [action |-> RATE_LIMIT, rl |-> rl2]
               ELSE LET rl3 == [rl2 EXCEPT !.ip_requests[ip] = Append(@, t)]
                    IN [action |-> ALLOW,
                        rl |-> IF user_id # None
                                  THEN [rl3 EXCEPT !.user_requests[user_id] = Append(@, t)]
                                  ELSE rl3]

\* Length to which _log_security_event trims the event log
MaxSecurityEvents == 1000

LOW == "low"
MEDIUM == "medium"
HIGH == "high"

\* A logger that drops the event
_log_security_event_drops(events, event_type, threat_level, ip, user_id) == events

\* A logger that, once the log is full, keeps the oldest events
_log_security_event_keeps_oldest(events, event_type, threat_level, ip, user_id) ==
    LET e == Append(events, [event_type |-> event_type, threat_level |-> threat_level,
                             ip_address |-> ip, user_id |-> user_id])
    IN IF Len(e) > MaxSecurityEvents THEN SubSeq(e, 1, MaxSecurityEvents) ELSE e

\* SecurityManager._log_security_event: the new event log
_log_security_event(events, event_type, threat_level, ip, user_id) ==
    LET e == Append(events, [event_type |-> event_type, threat_level |-> threat_level,
                             ip_address |-> ip, user_id |-> user_id])
    IN IF Len(e) > MaxSecurityEvents
          THEN SubSeq(e, Len(e) - MaxSecurityEvents + 1, Len(e))
          ELSE e

\* Client addresses: what ipaddress.ip_address() makes of each
Ips == {"10.0.0.1", "8.8.8.8", "not-an-ip"}
IsValidIp(ip) == ip \in {"10.0.0.1", "8.8.8.8"}
IsPrivateOrLoopback(ip) == ip \in {"10.0.0.1"}

\* SecurityManager.trusted_ips: created empty and never added to
trusted_ips == {}

\* A faulty reputation test that trusts private and loopback addresses
\* before it looks at the blocked set
_is_suspicious_ip_private_first(blocked, ip) ==
    IF IsValidIp(ip) /\ IsPrivateOrLoopback(ip) THEN FALSE
    ELSE IF ip \in blocked THEN TRUE
    ELSE ~IsValidIp(ip)

\* SecurityManager._is_suspicious_ip
_is_suspicious_ip(blocked, ip) ==
    IF ip \in blocked THEN TRUE
    ELSE IF ip \in trusted_ips THEN FALSE
    ELSE IF ~IsValidIp(ip) THEN TRUE
    ELSE FALSE

\* User-Agent headers: "" is the absent header
BROWSER == "Mozilla/5.0 (X11; Linux x86_64)"
UserAgents == {"", BROWSER, "Googlebot/2.1", "curl/8.0"}
UaHasSuspiciousPattern(user_agent) == user_agent \in {"Googlebot/2.1"}
UaLen(user_agent) ==
    CASE user_agent = "" -> 0
      [] user_agent = "curl/8.0" -> 8
      [] user_agent = "Googlebot/2.1" -> 13
      [] OTHER -> 31

\* SecurityManager._is_suspicious_user_agent
_is_suspicious_user_agent(user_agent) ==
    IF user_agent = "" THEN TRUE
    ELSE IF UaHasSuspiciousPattern(user_agent) THEN TRUE
    ELSE IF UaLen(user_agent) < 10 THEN TRUE
    ELSE FALSE

\* SecurityManager._validate_request_data: request_data is the sequence of
\* the string values of the query parameters
_validate_request_data(request_data) ==
    \A i \in DOMAIN request_data : validate_text_input(request_data[i], 10000).valid

\* SecurityManager.check_request_security: the verdict, the rate limiter and
\* the event log it leaves (request_data = <<>> stands for None or {})
check_request_security(endpoint, ip, user_id, user_agent, request_data) ==
    LET rule_name == _get_rate_limit_rule(endpoint)
        chk == check_rate_limit(RateLimiterState, rule_name, ip, user_id, rl_now)
        log(events, type, level) == _log_security_event(events, type, level, ip, user_id)
    IN IF chk.action # ALLOW
          THEN [allowed |-> FALSE, action |-> chk.action, reason |-> "Rate limit exceeded",
                rl |-> chk.rl,
                events |-> log(security_events, "rate_limit_exceeded", MEDIUM)]
       ELSE IF _is_suspicious_ip(blocked_ips, ip)
          THEN [allowed |-> FALSE, action |-> BLOCK_TEMPORARY,
                reason |-> "Suspicious IP address", rl |-> chk.rl,
                events |-> log(security_events, "suspicious_ip", HIGH)]
       ELSE LET ev1 == IF user_agent # "" /\ _is_suspicious_user_agent(user_agent)
                          THEN log(security_events, "suspicious_user_agent", MEDIUM)
                          ELSE security_events
            IN IF request_data # <<>> /\ ~_validate_request_data(request_data)
                  THEN [allowed |-> FALSE, action |-> BLOCK_TEMPORARY,
                        reason |-> "Malicious input detected", rl |-> chk.rl,
                        events |-> log(ev1, "malicious_input", HIGH)]
               ELSE [allowed |-> TRUE, action |-> ALLOW,
                     reason |-> "Request passed security checks", rl |-> chk.rl,
                     events |-> ev1]

\* SecurityManager.max_failed_attempts, and timedelta(hours=1) in seconds
max_failed_attempts == 5
OneHour == 3600

\* The timestamps of a list that a cutoff keeps
RECURSIVE After(_, _)
After(attempts, cutoff) ==
    IF attempts = <<>> THEN <<>>
    ELSE IF Head(attempts) > cutoff THEN <<Head(attempts)>> \o After(Tail(attempts), cutoff)
    ELSE After(Tail(attempts), cutoff)

\* A record_failed_login that never drops an old attempt
record_failed_login_keeps_old(attempts, events, blocked, identifier, ip, t) ==
    LET kept == Append(attempts[identifier], t)
        locked == Len(kept) >= max_failed_attempts
    IN [ret |-> locked,
        failed_attempts |-> [attempts EXCEPT ![identifier] = kept],
        events |-> IF locked
                      THEN _log_security_event(events, "brute_force_attempt", HIGH, ip, None)
                      ELSE events,
        blocked_ips |-> IF locked THEN blocked \cup {ip} ELSE blocked]

\* SecurityManager.record_failed_login: what it returns and the failed-attempt
\* ledger, event log and blocked addresses it leaves
record_failed_login(attempts, events, blocked, identifier, ip, t) ==
    LET cutoff == t - OneHour
        kept == Append(After(attempts[identifier], cutoff), t)
        locked == Len(kept) >= max_failed_attempts
    IN [ret |-> locked,
        failed_attempts |-> [attempts EXCEPT ![identifier] = kept],
        events |-> IF locked
                      THEN _log_security_event(events, "brute_force_attempt", HIGH, ip, None)
                      ELSE events,
        blocked_ips |-> IF locked THEN blocked \cup {ip} ELSE blocked]

\* ------------------------------------------------------------------------
\* Initial state: the constructors of TaskManager, UserManager and SecurityManager
\* ------------------------------------------------------------------------
InitExceptRules ==
    /\ tasks = <<>>
    /\ task_queue = <<>>
    /\ active_tasks = {}
    /\ max_concurrent_tasks = MaxConcurrent
    /\ processing = FALSE
    /\ loops = [scheduled |-> 0, get |-> 0, sleep |-> 0, timedout |-> 0]
    /\ worker = [i \in AllIds |-> [pc |-> "none", must_cancel |-> FALSE]]
    /\ next_id = 1
    /\ now = 0
    /\ executed = {}
    /\ cancelled_pending = {}
    /\ cancelled_processing = {}
    /\ raised = <<>>
    /\ users = <<>>
    /\ ret = None
    /\ rl_now = 0
    /\ ip_requests = [ip \in Ips |-> <<>>]
    /\ user_requests = [u \in UserIds |-> <<>>]
    /\ rl_blocked_ips = <<>>
    /\ rl_blocked_users = <<>>
    /\ security_events = <<>>
    /\ blocked_ips = {}
    /\ failed_attempts = [identifier \in Identifiers |-> <<>>]
    /\ rl_history = <<>>

Init ==
    /\ InitExceptRules
    /\ rl_rules = [rule_name \in RuleNames |-> rules(rule_name)]

\* ------------------------------------------------------------------------
\* Actions
\* ------------------------------------------------------------------------

\* TaskManager.create_task
create_task(type, user_id, prompt, parameters) ==
    /\ tasks' = tasks @@ (next_id :> NewTask(type, user_id, prompt, parameters, now))
    /\ task_queue' = Append(task_queue, next_id)
    /\ loops' = IF ~processing
                   THEN [loops EXCEPT !.scheduled = @ + 1]
                   ELSE loops
    /\ next_id' = next_id + 1
    /\ UNCHANGED <<active_tasks, max_concurrent_tasks, processing, worker, now,
                   executed, cancelled_pending, cancelled_processing, raised>>

\* A caller of create_task that touches nothing else; ids are allocated up to
\* the bound max_id
CreateTask(type, user_id, max_id) ==
    /\ next_id <= max_id
    /\ create_task(type, user_id, SchedPrompt, NoParameters)
    /\ UNCHANGED admVars

\* What cancel_task(id) returns when it is called in the current state
cancel_task_returns(id) ==
    IF id \notin DOMAIN tasks THEN FALSE
    ELSE IF tasks[id].status = PENDING THEN TRUE
    ELSE IF id \in active_tasks THEN TRUE
    ELSE FALSE

\* TaskManager.cancel_task
cancel_task(id) ==
    IF id \notin DOMAIN tasks
    THEN UNCHANGED schedVars
    ELSE IF tasks[id].status = PENDING
    THEN /\ tasks' = [tasks EXCEPT ![id] = [@ EXCEPT !.status = CANCELLED,
                                                   !.completed_at = now,
                                                   !.updated_at = now]]
         /\ cancelled_pending' = cancelled_pending \cup {id}
         /\ UNCHANGED <<task_queue, active_tasks, max_concurrent_tasks,
                        processing, loops, worker, next_id, now, executed,
                        cancelled_processing, raised>>
    ELSE IF id \in active_tasks
    THEN /\ worker' = [worker EXCEPT ![id] =
                          IF @.pc = "done" THEN @ ELSE [@ EXCEPT !.must_cancel = TRUE]]
         /\ tasks' = [tasks EXCEPT ![id] = [@ EXCEPT !.status = CANCELLED,
                                                   !.completed_at = now,
                                                   !.updated_at = now]]
         /\ active_tasks' = active_tasks \ {id}
         /\ cancelled_processing' = IF tasks[id].status = PROCESSING
                                       THEN cancelled_processing \cup {id}
                                       ELSE cancelled_processing
         /\ UNCHANGED <<task_queue, max_concurrent_tasks, processing, loops,
                        next_id, now, executed, cancelled_pending, raised>>
    ELSE UNCHANGED schedVars

\* A caller of cancel_task that touches nothing else
CancelTask(id) ==
    /\ cancel_task(id)
    /\ UNCHANGED admVars

\* process_queue, first step: the coroutine scheduled by create_task starts
LoopStart ==
    /\ loops.scheduled > 0
    /\ processing' = TRUE
    /\ LET to == LoopTop(active_tasks, max_concurrent_tasks)
       IN loops' = [loops EXCEPT !.scheduled = @ - 1, ![to] = @ + 1]
    /\ UNCHANGED <<admVars, tasks, task_queue, active_tasks, max_concurrent_tasks, worker,
                   next_id, now, executed, cancelled_pending, cancelled_processing, raised>>

\* process_queue: asyncio.sleep(1) is over, `continue`
LoopWake ==
    /\ loops.sleep > 0
    /\ LET to == LoopTop(active_tasks, max_concurrent_tasks)
       IN loops' = [[loops EXCEPT !.sleep = @ - 1] EXCEPT ![to] = @ + 1]
    /\ UNCHANGED <<admVars, tasks, task_queue, active_tasks, max_concurrent_tasks, processing,
                   worker, next_id, now, executed, cancelled_pending, cancelled_processing, raised>>

\* A faulty dispatch that takes the newest id of the queue: C13 must tell it
\* from the real one
LoopGet_newest_first ==
    /\ loops.get > 0
    /\ task_queue # <<>>
    /\ LET id == task_queue[Len(task_queue)]
           act == IF id \in DOMAIN tasks THEN active_tasks \cup {id} ELSE active_tasks
           to == LoopTop(act, max_concurrent_tasks)
       IN /\ task_queue' = SubSeq(task_queue, 1, Len(task_queue) - 1)
          /\ active_tasks' = act
          /\ worker' = IF id \in DOMAIN tasks
                          THEN [worker EXCEPT ![id] = [pc |-> "spawned", must_cancel |-> FALSE]]
                          ELSE worker
          /\ loops' = [[loops EXCEPT !.get = @ - 1] EXCEPT ![to] = @ + 1]
    /\ UNCHANGED <<admVars, tasks, max_concurrent_tasks, processing, next_id, now,
                   executed, cancelled_pending, cancelled_processing, raised>>

\* A faulty dispatch that takes an id off the queue and forgets it
LoopGet_dropping ==
    /\ loops.get > 0
    /\ task_queue # <<>>
    /\ task_queue' = Tail(task_queue)
    /\ LET to == LoopTop(active_tasks, max_concurrent_tasks)
       IN loops' = [[loops EXCEPT !.get = @ - 1] EXCEPT ![to] = @ + 1]
    /\ UNCHANGED <<admVars, tasks, active_tasks, worker, max_concurrent_tasks, processing,
                   next_id, now, executed, cancelled_pending, cancelled_processing, raised>>

\* process_queue: queue.get() delivers an id; spawn and register its worker
LoopGet ==
    /\ loops.get > 0
    /\ task_queue # <<>>
    /\ LET id == Head(task_queue)
           act == IF id \in DOMAIN tasks THEN active_tasks \cup {id} ELSE active_tasks
           to == LoopTop(act, max_concurrent_tasks)
       IN /\ task_queue' = Tail(task_queue)
          /\ active_tasks' = act
          /\ worker' = IF id \in DOMAIN tasks
                          THEN [worker EXCEPT ![id] = [pc |-> "spawned", must_cancel |-> FALSE]]
                          ELSE worker
          /\ loops' = [[loops EXCEPT !.get = @ - 1] EXCEPT ![to] = @ + 1]
    /\ UNCHANGED <<admVars, tasks, max_concurrent_tasks, processing, next_id, now,
                   executed, cancelled_pending, cancelled_processing, raised>>

\* process_queue: the 5 s timer of wait_for expires while the queue is empty;
\* the timer callback only schedules the loop, which resumes in a later step
LoopTimerFires ==
    /\ loops.get > 0
    /\ task_queue = <<>>
    /\ loops' = [loops EXCEPT !.get = @ - 1, !.timedout = @ + 1]
    /\ UNCHANGED <<admVars, tasks, task_queue, active_tasks, max_concurrent_tasks, processing,
                   worker, next_id, now, executed, cancelled_pending, cancelled_processing, raised>>

\* process_queue: the loop resumes with asyncio.TimeoutError
LoopTimeout ==
    /\ loops.timedout > 0
    /\ IF active_tasks = {}
       THEN /\ loops' = [loops EXCEPT !.timedout = @ - 1]
            /\ processing' = FALSE
       ELSE /\ LET to == LoopTop(active_tasks, max_concurrent_tasks)
               IN loops' = [[loops EXCEPT !.timedout = @ - 1] EXCEPT ![to] = @ + 1]
            /\ UNCHANGED processing
    /\ UNCHANGED <<admVars, tasks, task_queue, active_tasks, max_concurrent_tasks, worker,
                   next_id, now, executed, cancelled_pending, cancelled_processing, raised>>

\* _process_single_task, first step, up to the suspension inside Execute
WorkerStart(id) ==
    /\ worker[id].pc = "spawned"
    /\ IF worker[id].must_cancel
       THEN \* cancelled before its first step: the body never runs
            /\ worker' = [worker EXCEPT ![id].pc = "done"]
            /\ UNCHANGED <<tasks, active_tasks, executed>>
       ELSE IF id \notin DOMAIN tasks
       THEN \* `if not task: return`, before the try/finally
            /\ worker' = [worker EXCEPT ![id].pc = "done"]
            /\ UNCHANGED <<tasks, active_tasks, executed>>
       ELSE LET cp == Checkpoints(tasks[id].type)
                t1 == update_task_progress(tasks, id, 0, PROCESSING, now)
                t2 == update_task_progress(t1, id, cp[1], None, now)
                t3 == update_task_progress(t2, id, cp[2], None, now)
            IN /\ tasks' = t3
               /\ executed' = executed \cup {id}
               /\ worker' = [worker EXCEPT ![id].pc = "exec"]
               /\ UNCHANGED active_tasks
    /\ UNCHANGED <<admVars, task_queue, max_concurrent_tasks, processing, loops, next_id,
                   now, cancelled_pending, cancelled_processing, raised>>

\* A faulty worker that completes its task and keeps its registry entry
WorkerReturn_keeps_slot(id, result) ==
    /\ worker[id].pc = "exec"
    /\ ~worker[id].must_cancel
    /\ LET cp == Checkpoints(tasks[id].type)
           t1 == update_task_progress(tasks, id, cp[3], None, now)
       IN tasks' = complete_task(t1, id, result, now)
    /\ worker' = [worker EXCEPT ![id].pc = "done"]
    /\ UNCHANGED <<admVars, task_queue, active_tasks, max_concurrent_tasks, processing, loops,
                   next_id, now, executed, cancelled_pending, cancelled_processing, raised>>

\* _process_single_task: Execute returns a result
WorkerReturn(id, result) ==
    /\ worker[id].pc = "exec"
    /\ ~worker[id].must_cancel
    /\ LET cp == Checkpoints(tasks[id].type)
           t1 == update_task_progress(tasks, id, cp[3], None, now)
       IN tasks' = complete_task(t1, id, result, now)
    /\ active_tasks' = active_tasks \ {id}
    /\ worker' = [worker EXCEPT ![id].pc = "done"]
    /\ UNCHANGED <<admVars, task_queue, max_concurrent_tasks, processing, loops, next_id,
                   now, executed, cancelled_pending, cancelled_processing, raised>>

\* _process_single_task: Execute raises an exception with message msg
WorkerRaise(id, msg) ==
    /\ worker[id].pc = "exec"
    /\ ~worker[id].must_cancel
    /\ raised' = IF id \in DOMAIN tasks /\ tasks[id].status = PROCESSING
                    THEN (id :> msg) @@ raised
                    ELSE raised
    /\ tasks' = fail_task(tasks, id, msg, now)
    /\ active_tasks' = active_tasks \ {id}
    /\ worker' = [worker EXCEPT ![id].pc = "done"]
    /\ UNCHANGED <<admVars, task_queue, max_concurrent_tasks, processing, loops, next_id,
                   now, executed, cancelled_pending, cancelled_processing>>

\* A faulty worker that records the interruption as a failure: C11 must tell
\* it from the real one
WorkerCancelled_as_failure(id) ==
    /\ worker[id].pc = "exec"
    /\ worker[id].must_cancel
    /\ tasks' = fail_task(tasks, id, "cancelled", now)
    /\ active_tasks' = active_tasks \ {id}
    /\ worker' = [worker EXCEPT ![id].pc = "done"]
    /\ UNCHANGED <<admVars, task_queue, max_concurrent_tasks, processing, loops, next_id,
                   now, executed, cancelled_pending, cancelled_processing, raised>>

\* _process_single_task: the cancel request is delivered as CancelledError
WorkerCancelled(id) ==
    /\ worker[id].pc = "exec"
    /\ worker[id].must_cancel
    /\ tasks' = IF id \in DOMAIN tasks
                   THEN update_task_progress(tasks, id, tasks[id].progress, CANCELLED, now)
                   ELSE tasks
    /\ active_tasks' = active_tasks \ {id}
    /\ worker' = [worker EXCEPT ![id].pc = "done"]
    /\ UNCHANGED <<admVars, task_queue, max_concurrent_tasks, processing, loops, next_id,
                   now, executed, cancelled_pending, cancelled_processing, raised>>

\* A faulty cleanup that removes the old tasks whatever their status
cleanup_old_tasks_any_status(days) ==
    /\ tasks' = [id \in {i \in DOMAIN tasks : ~(tasks[i].updated_at < now - days)}
                   |-> tasks[id]]
    /\ UNCHANGED <<admVars, task_queue, active_tasks, max_concurrent_tasks, processing, loops,
                   worker, next_id, now, executed, cancelled_pending, cancelled_processing, raised>>

\* TaskManager.cleanup_old_tasks
cleanup_old_tasks(days) ==
    /\ LET cutoff_date == now - days
           tasks_to_remove == {id \in DOMAIN tasks :
                                  /\ tasks[id].status \in Terminal
                                  /\ tasks[id].updated_at < cutoff_date}
       IN tasks' = [id \in (DOMAIN tasks) \ tasks_to_remove |-> tasks[id]]
    /\ UNCHANGED <<admVars, task_queue, active_tasks, max_concurrent_tasks, processing, loops,
                   worker, next_id, now, executed, cancelled_pending, cancelled_processing, raised>>

\* Time passes
Tick ==
    /\ now + TickDays <= MaxClock
    /\ now' = now + TickDays
    /\ UNCHANGED <<admVars, tasks, task_queue, active_tasks, max_concurrent_tasks, processing,
                   loops, worker, next_id, executed, cancelled_pending, cancelled_processing, raised>>

\* ---- Quota Ledger -------------------------------------------------------

\* UserManager.create_user: user ids are generated fresh
CreateUser(user_id, role) ==
    /\ user_id \notin DOMAIN users
    /\ users' = (user_id :> NewUser(role)) @@ users
    /\ ret' = None
    /\ UNCHANGED <<schedVars, secVars>>

\* A call of UserManager.check_quota
CheckQuota(user_id, quota_type, amount) ==
    /\ ret' = BoolRet(check_quota(users, user_id, quota_type, amount))
    /\ UNCHANGED <<users, schedVars, secVars>>

\* A call of UserManager.consume_quota
ConsumeQuota(user_id, quota_type, amount) ==
    /\ (user_id \in DOMAIN users /\ Get(users[user_id].quota_limits, quota_type, 0) = -1)
          => Get(users[user_id].quota_used, quota_type, 0) + amount <= MaxUnlimitedUse
    /\ ret' = BoolRet(check_quota(users, user_id, quota_type, amount))
    /\ users' = consume_quota(users, user_id, quota_type, amount)
    /\ UNCHANGED <<schedVars, secVars>>

\* UserManager.reset_daily_quotas
reset_daily_quotas ==
    /\ users' = reset_quotas(users, {"daily_tasks"})
    /\ ret' = None
    /\ UNCHANGED <<schedVars, secVars>>

\* UserManager.reset_monthly_quotas
reset_monthly_quotas ==
    /\ users' = reset_quotas(users, {"monthly_storage_mb"})
    /\ ret' = None
    /\ UNCHANGED <<schedVars, secVars>>

\* ---- Admission Pipeline (main.py) ---------------------------------------

\* Responses of DELETE /api/v1/tasks/{task_id}: the HTTPException(404) raised
\* inside the try block is caught by `except Exception` and raised again as 500
HTTP_500_DENIED == "500 Delete failed: 404: Task not found or access denied"
HTTP_500_NOT_CANCELLED == "500 Delete failed: 404: Task not found"
HTTP_200_DELETED == "200 Task deleted"

\* A faulty delete_task that does not look at the owner
delete_task_of_anyone(task_id, user_id) ==
    /\ cancel_task(task_id)
    /\ ret' = IF cancel_task_returns(task_id) THEN HTTP_200_DELETED
              ELSE HTTP_500_NOT_CANCELLED
    /\ UNCHANGED <<users, secVars>>

\* main.delete_task(task_id, user_id), user_id being the user that
\* get_current_user resolved: get_task, the ownership test, cancel_task.
\* cancel_task leaves ret alone, the handler's response is written after it.
delete_task(task_id, user_id) ==
    IF task_id \notin DOMAIN tasks \/ tasks[task_id].user_id # user_id
       THEN /\ ret' = HTTP_500_DENIED
            /\ UNCHANGED <<schedVars, users, secVars>>
       ELSE /\ cancel_task(task_id)
            /\ ret' = IF cancel_task_returns(task_id) THEN HTTP_200_DELETED
                      ELSE HTTP_500_NOT_CANCELLED
            /\ UNCHANGED <<users, secVars>>

\* Responses of a generation request
HTTP_403 == "403"
HTTP_429 == "429"
HTTP_401 == "401 Invalid authentication token / User not found"
HTTP_500_PROMPT == "500 Generation failed: 400: Invalid prompt"
HTTP_500_QUOTA == "500 Generation failed: 429: quota exceeded"
HTTP_200_QUEUED == "200 queued"

\* `"rate" in security_check["reason"]` (a case-sensitive substring test)
ReasonHasRate(reason) ==
    CASE reason = "Rate limit exceeded" -> FALSE
      [] reason = "Suspicious IP address" -> FALSE
      [] reason = "Malicious input detected" -> FALSE
      [] OTHER -> FALSE

\* Path, task type and quota name of the generation handlers
Endpoint(type) ==
    CASE type = VIDEO_GENERATION -> "/api/v1/generate/video"
      [] type = IMAGE_GENERATION -> "/api/v1/generate/image"
      [] type = CODE_GENERATION -> "/api/v1/generate/code"
      [] type = AUDIO_GENERATION -> "/api/v1/generate/audio"

\* The amount a handler checks and consumes: num_images for images, else 1
Amount(type, num_images) == IF type = IMAGE_GENERATION THEN num_images ELSE 1

\* The parameters a handler stores on the task
Parameters(type, num_images) ==
    IF type = IMAGE_GENERATION THEN [num_images |-> num_images] ELSE NoParameters

\* get_current_user: a token names a user id, or is invalid (None)
get_current_user(token) == IF token \in DOMAIN users THEN token ELSE None

\* A faulty handler that creates the task before it checks the quota: C9 must
\* tell it from the real one
generate_cloud_create_first(user_id, type, prompt, num_images) ==
    LET validation == validate_prompt(prompt)
        amount == Amount(type, num_images)
    IN IF ~validation.valid
          THEN /\ ret' = HTTP_500_PROMPT
               /\ UNCHANGED <<users, schedVars>>
       ELSE /\ create_task(type, user_id, validation.filtered_prompt,
                           Parameters(type, num_images))
            /\ IF ~check_quota(users, user_id, type, amount)
                  THEN /\ ret' = HTTP_500_QUOTA
                       /\ UNCHANGED users
                  ELSE /\ users' = consume_quota(consume_quota(users, user_id, type, amount),
                                                 user_id, "daily_tasks", 1)
                       /\ ret' = HTTP_200_QUEUED

\* Body of generate_video_cloud, generate_audio_cloud, generate_code_cloud,
\* generate_image_cloud: validate the prompt, check the quota of the kind,
\* create the task, consume the quota of the kind and one daily task
generate_cloud(user_id, type, prompt, num_images) ==
    LET validation == validate_prompt(prompt)
        amount == Amount(type, num_images)
    IN IF ~validation.valid
          THEN /\ ret' = HTTP_500_PROMPT
               /\ UNCHANGED <<users, schedVars>>
       ELSE IF ~check_quota(users, user_id, type, amount)
          THEN /\ ret' = HTTP_500_QUOTA
               /\ UNCHANGED <<users, schedVars>>
       ELSE /\ create_task(type, user_id, validation.filtered_prompt,
                           Parameters(type, num_images))
            /\ users' = consume_quota(consume_quota(users, user_id, type, amount),
                                      user_id, "daily_tasks", 1)
            /\ ret' = HTTP_200_QUEUED

\* One POST /api/v1/generate/<kind>: security_middleware, then the
\* get_current_user dependency, then the handler.  None of the three suspends.
Request(ip, user_agent, token, type, prompt, num_images) ==
    LET gate == check_request_security(Endpoint(type), ip, None, user_agent, <<>>)
    IN /\ Len(gate.events) <= MaxLog
       /\ ip_requests' = gate.rl.ip_requests
       /\ user_requests' = gate.rl.user_requests
       /\ rl_blocked_ips' = gate.rl.blocked_ips
       /\ rl_blocked_users' = gate.rl.blocked_users
       /\ security_events' = gate.events
       /\ UNCHANGED <<rl_now, blocked_ips, rl_rules, failed_attempts, rl_history>>
       /\ IF ~gate.allowed
             THEN /\ ret' = IF ReasonHasRate(gate.reason) THEN HTTP_429 ELSE HTTP_403
                  /\ UNCHANGED <<users, schedVars>>
          ELSE IF get_current_user(token) = None
             THEN /\ ret' = HTTP_401
                  /\ UNCHANGED <<users, schedVars>>
          ELSE generate_cloud(get_current_user(token), type, prompt, num_images)

\* Time passes for the rate limiter
RlTick(seconds, max_clock) ==
    /\ rl_now + seconds <= max_clock
    /\ rl_now' = rl_now + seconds
    /\ UNCHANGED <<schedVars, users, ret, ip_requests, user_requests, rl_blocked_ips,
                   rl_blocked_users, security_events, blocked_ips, rl_rules,
                   failed_attempts, rl_history>>

\* ------------------------------------------------------------------------
\* Specifications
\* ------------------------------------------------------------------------

\* Task Store + Scheduler: create, cancel, the scheduler loops and the workers
Next ==
    \/ \E type \in SchedKinds, u \in SchedUsers : CreateTask(type, u, MaxTasks)
    \/ \E id \in TaskIds : CancelTask(id)
    \/ LoopStart
    \/ LoopWake
    \/ LoopGet
    \/ LoopTimerFires
    \/ LoopTimeout
    \/ \E id \in TaskIds : WorkerStart(id)
    \/ \E id \in TaskIds, r \in ResultValues : WorkerReturn(id, r)
    \/ \E id \in TaskIds, m \in ErrorMessages : WorkerRaise(id, m)
    \/ \E id \in TaskIds : WorkerCancelled(id)

Spec == Init /\ [][Next]_vars

\* The same with the clock and the maintenance sweep, for MaxCleanTasks tasks
NextClean ==
    \/ \E type \in SchedKinds, u \in SchedUsers : CreateTask(type, u, MaxCleanTasks)
    \/ \E id \in TaskIds : CancelTask(id)
    \/ LoopStart
    \/ LoopWake
    \/ LoopGet
    \/ LoopTimerFires
    \/ LoopTimeout
    \/ \E id \in TaskIds : WorkerStart(id)
    \/ \E id \in TaskIds, r \in ResultValues : WorkerReturn(id, r)
    \/ \E id \in TaskIds, m \in ErrorMessages : WorkerRaise(id, m)
    \/ \E id \in TaskIds : WorkerCancelled(id)
    \/ cleanup_old_tasks(DefaultRetentionDays)
    \/ Tick

SpecClean == Init /\ [][NextClean]_vars

\* The scheduler with progress reports: while a task is PROCESSING,
\* update_task_progress is called for it with values inside and outside
\* 0..100
MaxProgressTasks == 2
ProgressInputs == {-5, 50, 150}

ReportProgress(id, progress) ==
    /\ id \in DOMAIN tasks
    /\ tasks[id].status = PROCESSING
    /\ worker[id].pc = "exec"
    /\ tasks' = update_task_progress(tasks, id, progress, None, now)
    /\ UNCHANGED <<admVars, task_queue, active_tasks, max_concurrent_tasks, processing, loops,
                   worker, next_id, now, executed, cancelled_pending, cancelled_processing, raised>>

NextProgress ==
    \/ \E type \in SchedKinds, u \in SchedUsers : CreateTask(type, u, MaxProgressTasks)
    \/ \E id \in TaskIds : CancelTask(id)
    \/ \E id \in TaskIds, progress \in ProgressInputs : ReportProgress(id, progress)
    \/ LoopStart
    \/ LoopWake
    \/ LoopGet
    \/ LoopTimerFires
    \/ LoopTimeout
    \/ \E id \in TaskIds : WorkerStart(id)
    \/ \E id \in TaskIds, r \in ResultValues : WorkerReturn(id, r)
    \/ \E id \in TaskIds, m \in ErrorMessages : WorkerRaise(id, m)
    \/ \E id \in TaskIds : WorkerCancelled(id)

SpecProgress == Init /\ [][NextProgress]_vars

\* Tasks of two users: each creates tasks, and each asks for the deletion of
\* any task, its own or the other's
MaxOwnTasks == 2
OwnUsers == {"u1", "u2"}

NextOwn ==
    \/ \E type \in SchedKinds, u \in OwnUsers : CreateTask(type, u, MaxOwnTasks)
    \/ \E id \in 1..MaxOwnTasks, u \in OwnUsers : delete_task(id, u)
    \/ LoopStart
    \/ LoopWake
    \/ LoopGet
    \/ LoopTimerFires
    \/ LoopTimeout
    \/ \E id \in TaskIds : WorkerStart(id)
    \/ \E id \in TaskIds, r \in ResultValues : WorkerReturn(id, r)
    \/ \E id \in TaskIds, m \in ErrorMessages : WorkerRaise(id, m)
    \/ \E id \in TaskIds : WorkerCancelled(id)

SpecOwn == Init /\ [][NextOwn]_vars

\* The scheduler under a fair event loop: a coroutine that is ready to run is
\* run, a timer that is due fires, and every Execute call returns or raises.
\* Nothing is assumed of the callers (create, cancel).
ExecuteEnds(id) ==
    \/ \E r \in ResultValues : WorkerReturn(id, r)
    \/ \E m \in ErrorMessages : WorkerRaise(id, m)

Fairness ==
    /\ WF_vars(LoopStart)
    /\ WF_vars(LoopWake)
    /\ WF_vars(LoopGet)
    /\ WF_vars(LoopTimerFires)
    /\ WF_vars(LoopTimeout)
    /\ \A id \in TaskIds : WF_vars(WorkerStart(id))
    /\ \A id \in TaskIds : WF_vars(ExecuteEnds(id))
    /\ \A id \in TaskIds : WF_vars(WorkerCancelled(id))

FairSpec == Init /\ [][Next]_vars /\ Fairness

\* Quota Ledger alone: users are created and the ledger is called in any order
QuotaUsers == {"u1", "u2"}
QuotaRoles == {USER, ADMIN}
\* (resource, amount) of the calls
QuotaCalls == {<<"daily_tasks", 1>>, <<"daily_tasks", 2>>, <<"video_generation", 1>>,
               <<"video_generation", 2>>, <<"monthly_storage_mb", 60>>,
               <<"no_such_quota", 1>>}

NextQuota ==
    \/ \E u \in QuotaUsers, role \in QuotaRoles : CreateUser(u, role)
    \/ \E u \in QuotaUsers, c \in QuotaCalls : CheckQuota(u, c[1], c[2])
    \/ \E u \in QuotaUsers, c \in QuotaCalls : ConsumeQuota(u, c[1], c[2])
    \/ reset_daily_quotas
    \/ reset_monthly_quotas

SpecQuota == Init /\ [][NextQuota]_vars

\* Admission Pipeline: registered and unknown callers send generation
\* requests through the security gate; the daily reset runs at any time
GOOD_PROMPT == <<"dog">>
BAD_PROMPT == <<"dog", "ignore previous instructions">>

\* (ip, token, kind, prompt, num_images) of the requests
AdmRequests ==
    {<<"10.0.0.1", "u1", VIDEO_GENERATION, GOOD_PROMPT, 1>>,
     <<"10.0.0.1", "u1", IMAGE_GENERATION, GOOD_PROMPT, 1>>,
     <<"10.0.0.1", "u1", IMAGE_GENERATION, GOOD_PROMPT, 11>>,
     <<"10.0.0.1", "u1", VIDEO_GENERATION, BAD_PROMPT, 1>>,
     <<"10.0.0.1", "ghost", VIDEO_GENERATION, GOOD_PROMPT, 1>>,
     <<"not-an-ip", "u1", VIDEO_GENERATION, GOOD_PROMPT, 1>>}
AdmTickSeconds == 61

AdmRequest(r) ==
    /\ next_id <= MaxAdmTasks
    /\ Request(r[1], BROWSER, r[2], r[3], r[4], r[5])

NextAdm ==
    \/ CreateUser("u1", USER)
    \/ \E r \in AdmRequests : AdmRequest(r)
    \/ reset_daily_quotas
    \/ RlTick(AdmTickSeconds, MaxAdmClock)

SpecAdm == Init /\ [][NextAdm]_vars

\* Daily allowance: one registered user sends valid generation requests of
\* two kinds from one address, slowly enough or not for the rate limiter
DailyRequests ==
    {<<"10.0.0.1", "u1", VIDEO_GENERATION, GOOD_PROMPT, 1>>,
     <<"10.0.0.1", "u1", IMAGE_GENERATION, GOOD_PROMPT, 1>>}

DailyRequest(r) ==
    /\ next_id <= MaxDailyTasks
    /\ Request(r[1], BROWSER, r[2], r[3], r[4], r[5])

NextDaily ==
    \/ CreateUser("u1", USER)
    \/ \E r \in DailyRequests : DailyRequest(r)
    \/ reset_daily_quotas
    \/ RlTick(AdmTickSeconds, MaxDailyClock)

SpecDaily == Init /\ [][NextDaily]_vars

\* ---- Failed logins --------------------------------------------------------

\* A call of SecurityManager.record_failed_login(identifier, ip)
RecordFailedLogin(identifier, ip) ==
    LET r == record_failed_login(failed_attempts, security_events, blocked_ips,
                                 identifier, ip, rl_now)
    IN /\ failed_attempts' = r.failed_attempts
       /\ security_events' = r.events
       /\ blocked_ips' = r.blocked_ips
       /\ ret' = BoolRet(r.ret)
       /\ UNCHANGED <<schedVars, users, rl_now, ip_requests, user_requests, rl_blocked_ips,
                      rl_blocked_users, rl_rules>>

\* Calls of record_failed_login in one behaviour of the specification of the
\* failed logins, the seconds between two of its instants, and the instant at
\* which its clock stops
MaxLoginCalls == 6
LoginTickSeconds == 1800
MaxLoginClock == 3600

LoginIps == {"10.0.0.1", "8.8.8.8"}

LoginCall(identifier, ip) ==
    /\ Len(rl_history) < MaxLoginCalls
    /\ RecordFailedLogin(identifier, ip)
    /\ rl_history' = Append(rl_history, [t |-> rl_now, identifier |-> identifier, ip |-> ip,
                                         locked |-> ret'])

NextLogin ==
    \/ \E identifier \in Identifiers, ip \in LoginIps : LoginCall(identifier, ip)
    \/ RlTick(LoginTickSeconds, MaxLoginClock)

SpecLogin == Init /\ [][NextLogin]_vars

\* ---- Security Gate alone ------------------------------------------------

\* Events in the log, and the instant at which the clock stops, in the
\* specification of the gate
MaxGateLog == 2
MaxGateClock == 61

\* What the gate is called with: an endpoint of the "generation" rule, a
\* private and a malformed address, the User-Agent headers, and the query
\* parameters of a GET request (none, a harmless one, one with SQL in it)
GateEndpoint == "/api/v1/generate/image"
GateIps == {"10.0.0.1", "not-an-ip"}
GateData == { <<>>, << <<"dog">> >>, << <<"drop">> >> }

\* security_middleware calling check_request_security for a request
GateCheck(endpoint, ip, user_agent, request_data) ==
    LET gate == check_request_security(endpoint, ip, None, user_agent, request_data)
    IN /\ Len(gate.events) <= MaxGateLog
       /\ ip_requests' = gate.rl.ip_requests
       /\ user_requests' = gate.rl.user_requests
       /\ rl_blocked_ips' = gate.rl.blocked_ips
       /\ rl_blocked_users' = gate.rl.blocked_users
       /\ security_events' = gate.events
       /\ ret' = gate.reason
       /\ UNCHANGED <<schedVars, users, rl_now, blocked_ips, rl_rules, failed_attempts,
                      rl_history>>

\* A failed login of one account from the private address
GateFailedLogin ==
    /\ Len(failed_attempts["a@x"]) < max_failed_attempts
    /\ RecordFailedLogin("a@x", "10.0.0.1")
    /\ Len(security_events') <= MaxGateLog
    /\ UNCHANGED rl_history

NextGate ==
    \/ \E ip \in GateIps, user_agent \in UserAgents, request_data \in GateData :
          GateCheck(GateEndpoint, ip, user_agent, request_data)
    \/ GateFailedLogin
    \/ RlTick(AdmTickSeconds, MaxGateClock)

SpecGate == Init /\ [][NextGate]_vars

\* ---- Security Event log alone --------------------------------------------

\* SecurityEvent(...) as the gate logs it (it passes no user)
GateEvent(event_type, threat_level, ip) ==
    [event_type |-> event_type, threat_level |-> threat_level, ip_address |-> ip,
     user_id |-> None]

\* Events logged in one behaviour of the specification of the log
MaxLogged == 1003

\* The address of the n-th event logged: the three addresses in turn, so
\* that neighbouring events differ
LoggedIp(n) ==
    CASE n % 3 = 0 -> "10.0.0.1"
      [] n % 3 = 1 -> "8.8.8.8"
      [] OTHER -> "not-an-ip"

\* A call of SecurityManager._log_security_event; rl_history keeps every
\* event ever logged
LogEvent(event_type, threat_level, ip) ==
    /\ Len(rl_history) < MaxLogged
    /\ ip = LoggedIp(Len(rl_history))
    /\ security_events' = _log_security_event(security_events, event_type, threat_level,
                                              ip, None)
    /\ rl_history' = Append(rl_history, GateEvent(event_type, threat_level, ip))
    /\ UNCHANGED <<schedVars, users, ret, rl_now, ip_requests, user_requests, rl_blocked_ips,
                   rl_blocked_users, blocked_ips, rl_rules, failed_attempts>>

NextLog == \E ip \in Ips : LogEvent("suspicious_ip", HIGH, ip)

SpecLog == Init /\ [][NextLog]_vars

\* ---- Prompt validation alone ---------------------------------------------

\* Prompts are sequences of at most MaxPromptLen of these pieces of text
MaxPromptLen == 3
PromptTokens == {"dog", NEWLINE, "hack", "ignore previous instructions",
                 "pretend you are", "developer mode"}
Prompts == UNION {[1..n -> PromptTokens] : n \in 0..MaxPromptLen}

\* A call of SecurityManager.validate_prompt(prompt); rl_history keeps the
\* prompt and the verdict
ValidatePrompt(prompt) ==
    /\ rl_history' = Append(rl_history, [prompt |-> prompt,
                                         verdict |-> validate_prompt(prompt)])
    /\ UNCHANGED <<schedVars, users, ret, rl_now, ip_requests, user_requests, rl_blocked_ips,
                   rl_blocked_users, security_events, blocked_ips, rl_rules,
                   failed_attempts>>

\* A prompt is validated, then the filtered prompt of the verdict is
\* validated again
NextPrompt ==
    \/ \E prompt \in Prompts : rl_history = <<>> /\ ValidatePrompt(prompt)
    \/ /\ Len(rl_history) = 1
       /\ ValidatePrompt(rl_history[1].verdict.filtered_prompt)

SpecPrompt == Init /\ [][NextPrompt]_vars

\* ---- Rate Limiter alone --------------------------------------------------
\* RateLimiter.rules is a plain dict attribute.  The limiter is run here with
\* one rule in it: a rule without burst limit, the default "generation" rule,
\* a rule of 100 requests an hour with burst limit 2, a rule whose window
\* is shorter than the minute of the burst test, and a rule of 3 requests in
\* four minutes with burst limit 2.  burst_limit = 0 stands for
\* None (`if rule.burst_limit and ...` treats both alike).
RateRules ==
    { [name |-> "no_burst", requests_per_window |-> 2, window_seconds |-> 60,
       burst_limit |-> 0, block_duration_seconds |-> 300],
      [name |-> "generation", requests_per_window |-> 10, window_seconds |-> 60,
       burst_limit |-> 3, block_duration_seconds |-> 120],
      [name |-> "hourly", requests_per_window |-> 100, window_seconds |-> 3600,
       burst_limit |-> 2, block_duration_seconds |-> 300],
      [name |-> "short", requests_per_window |-> 5, window_seconds |-> 10,
       burst_limit |-> 2, block_duration_seconds |-> 60],
      [name |-> "wide", requests_per_window |-> 3, window_seconds |-> 240,
       burst_limit |-> 2, block_duration_seconds |-> 300] }

RuleOf(r) ==
    [requests_per_window |-> r.requests_per_window, window_seconds |-> r.window_seconds,
     burst_limit |-> r.burst_limit, block_duration_seconds |-> r.block_duration_seconds]

\* The clients that call the limiter: an address without user, the same
\* address with a user, and that user from another address
RateClients == { <<"10.0.0.1", None>>, <<"10.0.0.1", "u1">>, <<"8.8.8.8", "u1">> }

\* Calls of the limiter in one behaviour, the seconds between two instants of
\* the model, and the instant at which its clock stops
MaxChecks == 4
RateTickSeconds == 60
MaxRateClock == 360

InitRate ==
    /\ InitExceptRules
    /\ \E r \in RateRules : rl_rules = (r.name :> RuleOf(r))

\* A faulty call that starts the block of the address anew each time it
\* answers BLOCK_TEMPORARY
RateCheck_extends_block(rule_name, ip, user_id) ==
    LET r == check_rate_limit(RateLimiterState, rule_name, ip, user_id, rl_now)
    IN /\ Len(rl_history) < MaxChecks
       /\ ip_requests' = r.rl.ip_requests
       /\ user_requests' = r.rl.user_requests
       /\ rl_blocked_ips' = IF r.action = BLOCK_TEMPORARY /\ rule_name \in DOMAIN rl_rules
                               THEN (ip :> (rl_now + rl_rules[rule_name].block_duration_seconds))
                                       @@ r.rl.blocked_ips
                               ELSE r.rl.blocked_ips
       /\ rl_blocked_users' = r.rl.blocked_users
       /\ ret' = r.action
       /\ rl_history' = Append(rl_history, [t |-> rl_now, rule |-> rule_name, ip |-> ip,
                                            user_id |-> user_id, action |-> r.action])
       /\ UNCHANGED <<schedVars, users, rl_now, security_events, blocked_ips, rl_rules,
                      failed_attempts>>

\* A faulty call that records the request whatever the answer
RateCheck_records_refusals(rule_name, ip, user_id) ==
    LET r == check_rate_limit(RateLimiterState, rule_name, ip, user_id, rl_now)
    IN /\ Len(rl_history) < MaxChecks
       /\ ip_requests' = IF r.action = ALLOW THEN r.rl.ip_requests
                          ELSE [r.rl.ip_requests EXCEPT ![ip] = Append(@, rl_now)]
       /\ user_requests' = r.rl.user_requests
       /\ rl_blocked_ips' = r.rl.blocked_ips
       /\ rl_blocked_users' = r.rl.blocked_users
       /\ ret' = r.action
       /\ rl_history' = Append(rl_history, [t |-> rl_now, rule |-> rule_name, ip |-> ip,
                                            user_id |-> user_id, action |-> r.action])
       /\ UNCHANGED <<schedVars, users, rl_now, security_events, blocked_ips, rl_rules,
                      failed_attempts>>

\* A call of RateLimiter.check_rate_limit(rule_name, ip, user_id)
RateCheck(rule_name, ip, user_id) ==
    LET r == check_rate_limit(RateLimiterState, rule_name, ip, user_id, rl_now)
    IN /\ Len(rl_history) < MaxChecks
       /\ ip_requests' = r.rl.ip_requests
       /\ user_requests' = r.rl.user_requests
       /\ rl_blocked_ips' = r.rl.blocked_ips
       /\ rl_blocked_users' = r.rl.blocked_users
       /\ ret' = r.action
       /\ rl_history' = Append(rl_history, [t |-> rl_now, rule |-> rule_name, ip |-> ip,
                                            user_id |-> user_id, action |-> r.action])
       /\ UNCHANGED <<schedVars, users, rl_now, security_events, blocked_ips, rl_rules,
                      failed_attempts>>

NextRate ==
    \/ \E rule_name \in DOMAIN rl_rules, c \in RateClients : RateCheck(rule_name, c[1], c[2])
    \/ RlTick(RateTickSeconds, MaxRateClock)

SpecRate == InitRate /\ [][NextRate]_vars

\* The same limiter called with the name of its rule and with a name it has
\* no rule for
UnknownRule == "no_such_rule"

AnyRuleClients == { <<"10.0.0.1", None>>, <<"8.8.8.8", "u1">> }

NextRateAny ==
    \/ \E rule_name \in DOMAIN rl_rules \cup {UnknownRule}, c \in AnyRuleClients :
          RateCheck(rule_name, c[1], c[2])
    \/ RlTick(RateTickSeconds, MaxRateClock)

SpecRateAny == InitRate /\ [][NextRateAny]_vars

\* ------------------------------------------------------------------------
\* Claims
\* ------------------------------------------------------------------------
ProcessingTasks == {id \in DOMAIN tasks : tasks[id].status = PROCESSING}

\* C1: the number of PROCESSING tasks and the size of the active-worker
\* registry never exceed max_concurrent_tasks.
C1_ConcurrencyCap ==
    /\ Cardinality(ProcessingTasks) <= max_concurrent_tasks
    /\ Cardinality(active_tasks) <= max_concurrent_tasks

\* C2: for every task in the store, result is set iff status is COMPLETED and
\* error is set iff status is FAILED.
C2_ResultErrorIffStatus ==
    \A id \in DOMAIN tasks :
        /\ (tasks[id].result # None) <=> (tasks[id].status = COMPLETED)
        /\ (tasks[id].error # None) <=> (tasks[id].status = FAILED)

C2_Witness ==
    /\ \E id \in DOMAIN tasks : tasks[id].status = COMPLETED /\ tasks[id].result # None
    /\ \E id \in DOMAIN tasks : tasks[id].status = FAILED /\ tasks[id].error # None
    /\ now > 0

LegalTransitions ==
    {<<PENDING, PROCESSING>>, <<PENDING, CANCELLED>>, <<PROCESSING, COMPLETED>>,
     <<PROCESSING, FAILED>>, <<PROCESSING, CANCELLED>>}

\* C3: a task's status changes only along the five legal transitions; in
\* particular a terminal status never changes again.
C3_OnlyLegalTransitions ==
    [][\A id \in (DOMAIN tasks) \cap (DOMAIN tasks') :
          tasks'[id].status # tasks[id].status
             => <<tasks[id].status, tasks'[id].status>> \in LegalTransitions]_vars

\* C4: a task cancelled while PENDING never becomes PROCESSING, is never
\* handed to Execute and never acquires a result.
C4_CancelledPendingNeverRuns ==
    \A id \in cancelled_pending :
        /\ id \notin executed
        /\ id \in DOMAIN tasks =>
              /\ tasks[id].status # PROCESSING
              /\ tasks[id].result = None

\* C5: under a fair event loop and an Execute that always ends, every
\* created task eventually reaches a terminal state.
C5_EveryTaskTerminates ==
    \A id \in TaskIds :
        (id \in DOMAIN tasks) ~> (id \in DOMAIN tasks /\ tasks[id].status \in Terminal)

\* C6: no missed wakeups: a task id never remains in the pending queue while
\* no scheduler loop is running or scheduled to start.
C6_NoMissedWakeup ==
    task_queue # <<>> => LoopsAlive > 0

\* C7: quota cannot be oversold: for every user and every resource whose
\* limit is not -1, used <= limit, after any sequence of check, consume (with
\* positive amounts) and reset calls on newly created users.
C7_QuotaNeverOversold ==
    \A u \in DOMAIN users :
        \A q \in (DOMAIN users[u].quota_limits) \cup (DOMAIN users[u].quota_used) :
            Get(users[u].quota_limits, q, 0) # -1
               => Get(users[u].quota_used, q, 0) <= Get(users[u].quota_limits, q, 0)

C7_Witness ==
    \E u \in DOMAIN users :
        /\ users[u].quota_limits.video_generation # -1
        /\ users[u].quota_used.video_generation = users[u].quota_limits.video_generation
        /\ users[u].quota_used.monthly_storage_mb = 60
        /\ ret = RET_FALSE

\* C8: a user whose daily_tasks counter has reached its limit cannot create a
\* task of any kind: no request of that user adds a task to the store or the
\* queue.
C8_DailyLimitBlocksCreation ==
    [][\A u \in DOMAIN users :
          (/\ users[u].quota_limits.daily_tasks # -1
           /\ users[u].quota_used.daily_tasks >= users[u].quota_limits.daily_tasks)
          => /\ \A id \in (DOMAIN tasks') \ (DOMAIN tasks) : tasks'[id].user_id # u
             /\ task_queue' = task_queue]_vars

Rejections == {HTTP_403, HTTP_429, HTTP_401, HTTP_500_PROMPT, HTTP_500_QUOTA}

\* C9: a request that admission rejects (security gate, caller unknown,
\* prompt validation, quota check) leaves the Task Store, the pending queue
\* and every quota counter exactly as they were, and starts no scheduler loop.
C9_RejectionLeavesNoTrace ==
    [][ret' \in Rejections
          => /\ tasks' = tasks
             /\ task_queue' = task_queue
             /\ users' = users
             /\ next_id' = next_id
             /\ loops' = loops]_vars

C9_Witness ==
    /\ ret = HTTP_500_QUOTA
    /\ tasks # <<>>
    /\ security_events # <<>>
    /\ \E u \in DOMAIN users :
          users[u].quota_used.video_generation = users[u].quota_limits.video_generation

\* C10: when Execute raises while the task is PROCESSING, the task becomes
\* FAILED with the exception's message as its error, its slot is freed, and
\* no scheduler loop is ended or disturbed by the exception: the loops, the
\* processing flag and the pending queue are as they were, and a loop is
\* alive to dispatch what is queued.
C10_ExecuteFailureIsolated ==
    [][\A id \in (DOMAIN raised') \ (DOMAIN raised) :
          /\ tasks'[id].status = FAILED
          /\ tasks'[id].error = raised'[id]
          /\ id \notin active_tasks'
          /\ loops' = loops
          /\ LoopsAlive' > 0
          /\ processing' = processing
          /\ task_queue' = task_queue]_vars

C10_Witness ==
    \E id \in DOMAIN raised :
        /\ tasks[id].status = FAILED
        /\ tasks[id].error = raised[id]
        /\ task_queue # <<>>
        /\ loops.get + loops.sleep > 0

\* C11: a task cancelled while PROCESSING is CANCELLED with error and result
\* both unset, and stays so after its worker has observed the interruption.
C11_CancelledProcessingStaysCancelled ==
    \A id \in cancelled_processing :
        id \in DOMAIN tasks =>
            /\ tasks[id].status = CANCELLED
            /\ tasks[id].error = None
            /\ tasks[id].result = None

C11_Witness ==
    \E id \in cancelled_processing :
        /\ id \in executed
        /\ worker[id].must_cancel
        /\ worker[id].pc = "done"
        /\ tasks[id].status = CANCELLED

\* C12: cancel(task_id) returns true exactly when the task is PENDING or
\* PROCESSING at the call (and false for an unknown or terminal task).
C12_CancelTrueIffLive ==
    \A id \in TaskIds :
        cancel_task_returns(id)
            <=> (id \in DOMAIN tasks /\ tasks[id].status \in {PENDING, PROCESSING})

\* The worker of id has been spawned by a scheduler loop
Spawned(id) == worker[id].pc # "none"

AllowedBefore(h, k, byIp, since) ==
    {i \in 1..(k - 1) :
        /\ h[i].action = ALLOW
        /\ h[i].t >= since
        /\ IF byIp THEN h[i].ip = h[k].ip
                   ELSE h[k].user_id # None /\ h[i].user_id = h[k].user_id}

AllowedCount(h, k, since) ==
    Max(Cardinality(AllowedBefore(h, k, TRUE, since)),
        Cardinality(AllowedBefore(h, k, FALSE, since)))

\* C14: under a rule of N requests per window of W seconds without burst
\* limit, a check is answered ALLOW when fewer than N checks of the client
\* were answered ALLOW in the W seconds before it, and RATE_LIMIT otherwise:
\* the first N checks of a window pass, the further ones are limited, and a
\* check passes again once those timestamps are older than W.
C14_WindowLimit ==
    \A k \in 1..Len(rl_history) :
        LET e == rl_history[k]
            rule == rl_rules[e.rule]
        IN rule.burst_limit = 0 =>
              e.action = IF AllowedCount(rl_history, k, e.t - rule.window_seconds) < rule.requests_per_window
                            THEN ALLOW ELSE RATE_LIMIT

C14_Witness ==
    /\ Len(rl_history) = 4
    /\ rl_rules[rl_history[1].rule].burst_limit = 0
    /\ \A k \in 1..4 : rl_history[k].ip = "10.0.0.1" /\ rl_history[k].user_id = "u1"
    /\ <<rl_history[1].action, rl_history[2].action, rl_history[3].action,
         rl_history[4].action>> = <<ALLOW, ALLOW, RATE_LIMIT, ALLOW>>
    /\ rl_history[3].t = rl_history[1].t + rl_rules[rl_history[1].rule].window_seconds
    /\ rl_history[4].t > rl_history[3].t

\* The step is a call of check_rate_limit, recorded as the last entry of rl_history'
IsRateCheck == Len(rl_history') = Len(rl_history) + 1

LastCheck == rl_history'[Len(rl_history')]

\* The address, or the user, is under a block that has not expired
ActiveBlock(ip, user_id) ==
    \/ ip \in DOMAIN rl_blocked_ips /\ rl_now < rl_blocked_ips[ip]
    \/ user_id # None /\ user_id \in DOMAIN rl_blocked_users
                      /\ rl_now < rl_blocked_users[user_id]

\* The call answers BLOCK_TEMPORARY and, unless the client was under a block
\* already, blocks its address (and user) until now + block_duration_seconds
BurstBlocks(e, rule) ==
    /\ e.action = BLOCK_TEMPORARY
    /\ ~ActiveBlock(e.ip, e.user_id) =>
          /\ e.ip \in DOMAIN rl_blocked_ips'
          /\ rl_blocked_ips'[e.ip] = rl_now + rule.block_duration_seconds
          /\ e.user_id # None =>
                /\ e.user_id \in DOMAIN rl_blocked_users'
                /\ rl_blocked_users'[e.user_id] = rl_now + rule.block_duration_seconds

C15_BurstBlocks ==
    [][IsRateCheck =>
        LET e == LastCheck
            rule == rl_rules[e.rule]
        IN (rule.burst_limit > 0 /\ rule.window_seconds >= 60
            /\ AllowedCount(rl_history', Len(rl_history'), rl_now - 60) >= rule.burst_limit)
           => BurstBlocks(e, rule)]_vars

C15_Witness ==
    /\ Len(rl_history) = 3
    /\ rl_rules[rl_history[1].rule].requests_per_window = 100
    /\ \A k \in 1..3 : rl_history[k].ip = "10.0.0.1" /\ rl_history[k].user_id = "u1"
    /\ <<rl_history[1].action, rl_history[2].action, rl_history[3].action>>
          = <<ALLOW, ALLOW, BLOCK_TEMPORARY>>
    /\ rl_history[3].t = 60 /\ rl_history[1].t = 0
    /\ rl_blocked_ips = ("10.0.0.1" :> 360)
    /\ rl_blocked_users = ("u1" :> 360)

\* The limiter without the block records of the address and of the user
Unblocked(ip, user_id) ==
    [RateLimiterState EXCEPT
        !.blocked_ips = [k \in (DOMAIN @) \ {ip} |-> @[k]],
        !.blocked_users = [k \in (DOMAIN @) \ {user_id} |-> @[k]]]

\* The block record of key in dict d is gone after the step, or, when the
\* call itself answers with a new block, replaced by one of the full duration
RecordRemoved(d, key, e, rule) ==
    \/ key \notin DOMAIN d'
    \/ e.action = BLOCK_TEMPORARY /\ d'[key] = rl_now + rule.block_duration_seconds

\* C16: a check from an address or user under a block that has not expired
\* is answered BLOCK_TEMPORARY and changes nothing; a check from a client
\* whose blocks have all expired removes their records and is answered as the
\* window rules answer a client without block record.
C16_BlockUntilExpiry ==
    [][IsRateCheck =>
        LET e == LastCheck
            rule == rl_rules[e.rule]
        IN IF ActiveBlock(e.ip, e.user_id)
              THEN /\ e.action = BLOCK_TEMPORARY
                   /\ UNCHANGED <<ip_requests, user_requests>>
                   /\ \A ip \in DOMAIN rl_blocked_ips :
                         rl_now < rl_blocked_ips[ip] =>
                             ip \in DOMAIN rl_blocked_ips'
                             /\ rl_blocked_ips'[ip] = rl_blocked_ips[ip]
                   /\ \A u \in DOMAIN rl_blocked_users :
                         rl_now < rl_blocked_users[u] =>
                             u \in DOMAIN rl_blocked_users'
                             /\ rl_blocked_users'[u] = rl_blocked_users[u]
              ELSE /\ e.ip \in DOMAIN rl_blocked_ips =>
                         RecordRemoved(rl_blocked_ips, e.ip, e, rule)
                   /\ (e.user_id # None /\ e.user_id \in DOMAIN rl_blocked_users) =>
                         RecordRemoved(rl_blocked_users, e.user_id, e, rule)
                   /\ e.action = check_rate_limit(Unblocked(e.ip, e.user_id), e.rule, e.ip,
                                                  e.user_id, rl_now).action
                   /\ e.action = BLOCK_TEMPORARY =>
                         /\ e.ip \in DOMAIN rl_blocked_ips'
                         /\ rl_blocked_ips'[e.ip] = rl_now + rule.block_duration_seconds]_vars

\* A client was blocked, and its first check at the expiry of the block was
\* answered ALLOW and removed the record
C16_Witness ==
    /\ Len(rl_history) = 4
    /\ \A k \in 1..4 : rl_history[k].ip = "10.0.0.1" /\ rl_history[k].user_id = "u1"
    /\ <<rl_history[1].action, rl_history[2].action, rl_history[3].action,
         rl_history[4].action>> = <<ALLOW, ALLOW, BLOCK_TEMPORARY, ALLOW>>
    /\ rl_history[4].t = rl_history[3].t
                           + rl_rules[rl_history[3].rule].block_duration_seconds
    /\ rl_blocked_ips = <<>>
    /\ rl_blocked_users = <<>>

\* C17: consume_quota(user, resource, amount) checks and consumes in one
\* step: when check_quota refuses, it returns False and the user table is
\* unchanged; when check_quota accepts, it returns True, that user's
\* quota_used[resource] grows by amount, and no other counter, limit, role or
\* user changes.
C17_ConsumeAtomic ==
    [][\A u \in QuotaUsers, c \in QuotaCalls :
          ConsumeQuota(u, c[1], c[2]) =>
             IF check_quota(users, u, c[1], c[2])
                THEN /\ ret' = RET_TRUE
                     /\ DOMAIN users' = DOMAIN users
                     /\ users'[u].quota_used[c[1]]
                           = Get(users[u].quota_used, c[1], 0) + c[2]
                     /\ \A v \in DOMAIN users :
                           /\ users'[v].role = users[v].role
                           /\ users'[v].quota_limits = users[v].quota_limits
                           /\ \A q \in DOMAIN users'[v].quota_used :
                                 <<v, q>> # <<u, c[1]>> =>
                                     /\ q \in DOMAIN users[v].quota_used
                                     /\ users'[v].quota_used[q] = users[v].quota_used[q]
                ELSE /\ ret' = RET_FALSE
                     /\ users' = users]_vars

\* Two users; one has consumed 2 daily tasks and 60 MB and was just refused
\* a further 60 MB, the other has consumed nothing
C17_Witness ==
    /\ DOMAIN users = QuotaUsers
    /\ users["u1"].role = USER /\ users["u2"].role = USER
    /\ users["u1"].quota_used.daily_tasks = 2
    /\ users["u1"].quota_used.monthly_storage_mb = 60
    /\ \A q \in DOMAIN users["u2"].quota_used : users["u2"].quota_used[q] = 0
    /\ ret = RET_FALSE

\* The calls of record_failed_login for the identifier of the k-th call that
\* lie less than one hour before it, the k-th included
FailuresWithinHour(h, k) ==
    {i \in 1..k : h[i].identifier = h[k].identifier /\ h[i].t > h[k].t - OneHour}

NewEvents == SubSeq(security_events', Len(security_events) + 1, Len(security_events'))

\* What the gate answers when it passes a request
PASSED == "Request passed security checks"

\* The gate's checks in their order, for a call with this address, header and
\* request fields; uaLogged tells whether the header is one that gets logged
GateOrder(ip, user_agent, request_data, uaLogged) ==
    LET rate == check_rate_limit(RateLimiterState, _get_rate_limit_rule(GateEndpoint),
                                 ip, None, rl_now).action
        gate == check_request_security(GateEndpoint, ip, None, user_agent, request_data)
        verdict == <<gate.allowed, gate.action, ret'>>
        uaEvents == IF uaLogged
                       THEN <<GateEvent("suspicious_user_agent", MEDIUM, ip)>> ELSE <<>>
    IN IF rate # ALLOW
          THEN /\ verdict = <<FALSE, rate, "Rate limit exceeded">>
               /\ NewEvents = <<GateEvent("rate_limit_exceeded", MEDIUM, ip)>>
       ELSE IF _is_suspicious_ip(blocked_ips, ip)
          THEN /\ verdict = <<FALSE, BLOCK_TEMPORARY, "Suspicious IP address">>
               /\ NewEvents = <<GateEvent("suspicious_ip", HIGH, ip)>>
       ELSE IF request_data # <<>> /\ ~_validate_request_data(request_data)
          THEN /\ verdict = <<FALSE, BLOCK_TEMPORARY, "Malicious input detected">>
               /\ NewEvents = uaEvents \o <<GateEvent("malicious_input", HIGH, ip)>>
       ELSE /\ verdict = <<TRUE, ALLOW, PASSED>>
            /\ NewEvents = uaEvents

\* C18: the gate checks rate limit, IP reputation, user-agent and request
\* fields in this order; its action and reason are those of the first check
\* that fails and nothing of a later check is logged; a suspicious
\* user-agent (empty, too short or bot-like) is logged and rejects nothing.
C18_GateOrder ==
    [][\A ip \in GateIps, user_agent \in UserAgents, request_data \in GateData :
          GateCheck(GateEndpoint, ip, user_agent, request_data)
             => GateOrder(ip, user_agent, request_data,
                          _is_suspicious_user_agent(user_agent))]_vars

\* The same with the empty User-Agent left out of those that are logged
C18_GateOrderEmptyUaNotLogged ==
    [][\A ip \in GateIps, user_agent \in UserAgents, request_data \in GateData :
          GateCheck(GateEndpoint, ip, user_agent, request_data)
             => GateOrder(ip, user_agent, request_data,
                          user_agent # "" /\ _is_suspicious_user_agent(user_agent))]_vars

\* A too short User-Agent was logged and the request passed
C18_Witness ==
    /\ ret = PASSED
    /\ security_events # <<>>
    /\ security_events[Len(security_events)]
          = GateEvent("suspicious_user_agent", MEDIUM, "10.0.0.1")

HighEvents(events) == {i \in DOMAIN events : events[i].threat_level = HIGH}

\* C19: a call of the gate that finds a suspicious address or malicious
\* request fields (the checks before it having passed) is rejected and
\* appends exactly one event of level HIGH, of the matching type and address;
\* a call that the gate allows appends no event of level HIGH.
C19_HighFindingRejectedAndLogged ==
    [][\A ip \in GateIps, user_agent \in UserAgents, request_data \in GateData :
          GateCheck(GateEndpoint, ip, user_agent, request_data) =>
             LET rate == check_rate_limit(RateLimiterState,
                                          _get_rate_limit_rule(GateEndpoint),
                                          ip, None, rl_now).action
                 ipBad == _is_suspicious_ip(blocked_ips, ip)
                 dataBad == request_data # <<>> /\ ~_validate_request_data(request_data)
                 high == HighEvents(NewEvents)
             IN /\ (rate = ALLOW /\ (ipBad \/ dataBad)) =>
                      /\ ret' # PASSED
                      /\ Cardinality(high) = 1
                      /\ \A i \in high :
                            NewEvents[i] = GateEvent(IF ipBad THEN "suspicious_ip"
                                                              ELSE "malicious_input", HIGH, ip)
                /\ ret' = PASSED => high = {}
                /\ high # {} => rate = ALLOW /\ (ipBad \/ dataBad)]_vars

\* A request with SQL in a query parameter was rejected as malicious, then a
\* request from a malformed address as suspicious; one event of each
C19_Witness ==
    /\ ret = "Suspicious IP address"
    /\ security_events = << GateEvent("malicious_input", HIGH, "10.0.0.1"),
                            GateEvent("suspicious_ip", HIGH, "not-an-ip") >>

\* C21: a deletion request of a user who does not own the task is refused
\* and changes nothing of the task store, the queue and the workers; a task
\* becomes CANCELLED only in a deletion request of its owner.
C21_OnlyOwnerCancels ==
    [][/\ \A id \in 1..MaxOwnTasks, u \in OwnUsers :
             (delete_task(id, u) /\ id \in DOMAIN tasks /\ tasks[id].user_id # u)
                => (ret' = HTTP_500_DENIED /\ UNCHANGED schedVars)
       /\ \A id \in DOMAIN tasks :
             (tasks[id].status # CANCELLED /\ id \in DOMAIN tasks'
              /\ tasks'[id].status = CANCELLED)
                => (delete_task(id, tasks[id].user_id) /\ ret' = HTTP_200_DELETED)]_vars

\* The other user's request for the running task 1 was refused after the
\* owner of task 2 had it cancelled
C21_Witness ==
    /\ DOMAIN tasks = {1, 2}
    /\ tasks[1].user_id = "u1" /\ tasks[2].user_id = "u2"
    /\ tasks[1].status = PROCESSING /\ worker[1].pc = "exec" /\ 1 \in active_tasks
    /\ tasks[2].status = CANCELLED
    /\ ret = HTTP_500_DENIED

\* The tasks in a terminal state whose terminal timestamp is older than the
\* retention window
Expired(days) ==
    {id \in DOMAIN tasks : /\ tasks[id].status \in Terminal
                           /\ tasks[id].completed_at # NoTime
                           /\ tasks[id].completed_at < now - days}

SweepsOnly(quota_type) ==
    /\ DOMAIN users' = DOMAIN users
    /\ \A u \in DOMAIN users :
          /\ users'[u].role = users[u].role
          /\ users'[u].quota_limits = users[u].quota_limits
          /\ DOMAIN users'[u].quota_used = DOMAIN users[u].quota_used
          /\ \A q \in DOMAIN users[u].quota_used :
                users'[u].quota_used[q] = IF q = quota_type THEN 0
                                          ELSE users[u].quota_used[q]
    /\ UNCHANGED schedVars
    /\ reset_quotas(users', {quota_type}) = users'

\* C23: the daily sweep sets used[daily_tasks] of every user to 0, the
\* monthly sweep does so for used[monthly_storage_mb]; each leaves the other
\* counters, the limits and the tasks unchanged, and a second run of a sweep
\* changes nothing.
C23_SweepsIdempotentOwnClass ==
    [][/\ reset_daily_quotas => SweepsOnly("daily_tasks")
       /\ reset_monthly_quotas => SweepsOnly("monthly_storage_mb")]_vars

\* After a sweep (no call has returned since): the daily counter of both
\* users is 0 while their other counters keep what was consumed
C23_Witness ==
    /\ DOMAIN users = QuotaUsers
    /\ ret = None
    /\ \A u \in QuotaUsers :
          /\ users[u].role = USER
          /\ users[u].quota_used.daily_tasks = 0
          /\ users[u].quota_used.video_generation = 2
          /\ users[u].quota_used.monthly_storage_mb = 60

\* The last n elements of a sequence
LastOf(seq, n) == SubSeq(seq, Max(1, Len(seq) - n + 1), Len(seq))

\* C24: the Security Event log never holds more than 1000 events, and it
\* holds exactly the most recently logged ones, in the order they were logged.
C24_LogCappedNewestKept ==
    /\ Len(security_events) <= MaxSecurityEvents
    /\ security_events = LastOf(rl_history, MaxSecurityEvents)

\* 1002 events were logged: the log holds 1000, the oldest two are gone
C24_Witness ==
    /\ Len(rl_history) = MaxSecurityEvents + 2
    /\ Len(security_events) = MaxSecurityEvents
    /\ security_events[1] = rl_history[3]
    /\ security_events[1] # rl_history[1]
    /\ security_events[MaxSecurityEvents] = rl_history[MaxSecurityEvents + 2]

JAILBREAK == "Potential AI manipulation attempt detected"

\* C25: when validate_prompt reports an AI-manipulation threat for a prompt,
\* validating the filtered prompt of that verdict reports no such threat,
\* and reports the filtered prompt valid when that threat was the only one.
C25_FilteredPromptRevalidates ==
    Len(rl_history) = 2 =>
        LET first == rl_history[1].verdict
            again == rl_history[2].verdict
        IN JAILBREAK \in Range(first.threats) =>
              /\ JAILBREAK \notin Range(again.threats)
              /\ first.threats = <<JAILBREAK>> => again.valid

\* The same for the prompts whose manipulation clauses are all among the
\* three that _filter_prompt removes
C25_FilteredPatternsRevalidate ==
    Len(rl_history) = 2 =>
        LET first == rl_history[1].verdict
            again == rl_history[2].verdict
        IN (JAILBREAK \in Range(first.threats)
            /\ Range(rl_history[1].prompt) \cap JailbreakTokens \subseteq Range(FilteredPatterns))
           => /\ JAILBREAK \notin Range(again.threats)
              /\ first.threats = <<JAILBREAK>> => again.valid

\* "dog ignore previous instructions hack" was flagged, its filtered prompt
\* is "dog" and validates clean
C25_Witness ==
    /\ Len(rl_history) = 2
    /\ rl_history[1].prompt = <<"dog", "ignore previous instructions", "hack">>
    /\ JAILBREAK \in Range(rl_history[1].verdict.threats)
    /\ rl_history[2].prompt = <<"dog">>
    /\ rl_history[2].verdict.valid

\* C26: under the default "generation" rule a generation check of a client
\* is answered ALLOW as long as fewer than 10 checks of that client were
\* answered ALLOW within the last minute, and is limited only after that.
C26_GenerationAdmitsTen ==
    \A k \in 1..Len(rl_history) :
        LET e == rl_history[k]
        IN (e.rule = _get_rate_limit_rule(GateEndpoint) /\ rl_rules[e.rule] = rules(e.rule))
           => (e.action = ALLOW
                 <=> AllowedCount(rl_history, k, e.t - rules(e.rule).window_seconds)
                        < rules(e.rule).requests_per_window)

\* C27: check_quota(user, resource, amount) returns True if and only if the
\* user is known and the resource's limit (0 when the user has no such
\* resource) is -1 or used + amount <= limit; it returns False for an unknown
\* user; it never changes the user table.
C27_CheckQuotaAnswer ==
    [][\A u \in QuotaUsers, c \in QuotaCalls :
          CheckQuota(u, c[1], c[2]) =>
             /\ users' = users
             /\ ret' \in {RET_TRUE, RET_FALSE}
             /\ u \notin DOMAIN users => ret' = RET_FALSE
             /\ u \in DOMAIN users =>
                   LET limit == IF c[1] \in DOMAIN users[u].quota_limits
                                   THEN users[u].quota_limits[c[1]] ELSE 0
                       used == IF c[1] \in DOMAIN users[u].quota_used
                                  THEN users[u].quota_used[c[1]] ELSE 0
                   IN ret' = RET_TRUE <=> (limit = -1 \/ used + c[2] <= limit)]_vars

\* A plain user and an administrator have consumed nothing and a check was
\* just answered True: only check_quota answers True without consuming
C27_Witness ==
    /\ DOMAIN users = QuotaUsers
    /\ users["u1"].role = USER /\ users["u2"].role = ADMIN
    /\ \A u \in QuotaUsers : \A q \in DOMAIN users[u].quota_used : users[u].quota_used[q] = 0
    /\ ret = RET_TRUE

\* C28: at most one process_queue loop exists (scheduled to start or started
\* and not yet returned) at any time, and while a started loop has not
\* returned the processing flag is true.
C28_SingleLoop ==
    /\ LoopsAlive <= 1
    /\ (loops.get + loops.sleep + loops.timedout > 0) => processing

\* C29: under every rule, with or without burst limit, the checks of one
\* address answered ALLOW within any window_seconds never number more than
\* requests_per_window: a check answered ALLOW has fewer than
\* requests_per_window ALLOWed checks of its address in the window_seconds
\* before it (the instant window_seconds ago left out).
C29_MainWindowEveryRule ==
    \A k \in 1..Len(rl_history) :
        LET e == rl_history[k]
            rule == rl_rules[e.rule]
            allowed == {i \in 1..(k - 1) : /\ rl_history[i].action = ALLOW
                                           /\ rl_history[i].ip = e.ip
                                           /\ rl_history[i].t > e.t - rule.window_seconds}
        IN e.action = ALLOW => Cardinality(allowed) < rule.requests_per_window

\* The workers spawned by the loop that hold or use an execution unit: those
\* not cancelled that have not returned, and those cancelled in the middle of
\* Execute that have not yet observed the interruption (a worker cancelled
\* before its first step never executes anything and is left out)
RunningWorkers ==
    {id \in DOMAIN worker :
        \/ worker[id].pc \in {"spawned", "exec"} /\ ~worker[id].must_cancel
        \/ worker[id].pc = "exec" /\ worker[id].must_cancel}

\* C30: the workers still running, the cancelled ones that have not yet
\* observed their interruption included, never number more than
\* max_concurrent_tasks.  Stated for a scheduler with a single loop: no step
\* takes the number of running workers from within the cap to beyond it.
C30_CancelledSlotNotReused ==
    [][(LoopsAlive <= 1 /\ Cardinality(RunningWorkers) <= max_concurrent_tasks)
          => Cardinality(RunningWorkers') <= max_concurrent_tasks']_vars

\* C31: the completion timestamp is stamped on the transition into a terminal
\* state and never again: a step that leaves a task in the terminal status
\* it already has leaves its completed_at as it is.  Stated for the tasks
\* that were not cancelled while PENDING (those are dispatched all the same
\* and change status again).
C31_CompletedAtStampedOnce ==
    [][\A id \in DOMAIN tasks :
          (id \in DOMAIN tasks' /\ id \notin cancelled_pending
              /\ tasks[id].status \in Terminal
              /\ tasks'[id].status = tasks[id].status)
          => tasks'[id].completed_at = tasks[id].completed_at]_vars

\* The progress values a worker applies to a task of the given type, in the
\* order of its calls: update_task_progress(0, PROCESSING), the checkpoints
\* of the processor, and the 100 of complete_task
ProgressUpdates(type) == <<0>> \o Checkpoints(type) \o <<100>>

C33_NoSlotLeak ==
    \A id \in active_tasks : worker[id].pc \in {"spawned", "exec"}

\* The ids waiting in the pending queue
Queued == {task_queue[i] : i \in 1..Len(task_queue)}

C35_CompletedFailedFrozen ==
    /\ [](\A id \in DOMAIN tasks :
             tasks[id].status \in {COMPLETED, FAILED} => ~cancel_task_returns(id))
    /\ [][\A id \in DOMAIN tasks :
             (tasks[id].status \in {COMPLETED, FAILED} /\ id \in DOMAIN tasks')
                => /\ tasks'[id].status = tasks[id].status
                   /\ tasks'[id].result = tasks[id].result
                   /\ tasks'[id].error = tasks[id].error]_vars

\* One task of each terminal status: completed with its result, failed with
\* its error, cancelled
C35_Witness ==
    /\ DOMAIN tasks = {1, 2, 3}
    /\ tasks[1].status = COMPLETED /\ tasks[1].result \in ResultValues
    /\ tasks[2].status = FAILED /\ tasks[2].error \in ErrorMessages
    /\ tasks[3].status = CANCELLED
    /\ active_tasks = {}

\* s is what is left of t after elements were popped from its front
IsSuffix(s, t) == \E k \in 0..Len(t) : s = SubSeq(t, k + 1, Len(t))

\* The call e appended its timestamp to the sequence of its address and,
\* when it names a user, to the sequence of that user
Recorded(e) ==
    /\ Len(ip_requests'[e.ip]) > 0
    /\ ip_requests'[e.ip][Len(ip_requests'[e.ip])] = e.t
    /\ IsSuffix(SubSeq(ip_requests'[e.ip], 1, Len(ip_requests'[e.ip]) - 1), ip_requests[e.ip])
    /\ e.user_id # None =>
          /\ Len(user_requests'[e.user_id]) > 0
          /\ user_requests'[e.user_id][Len(user_requests'[e.user_id])] = e.t
          /\ IsSuffix(SubSeq(user_requests'[e.user_id], 1, Len(user_requests'[e.user_id]) - 1),
                      user_requests[e.user_id])

\* The call e appended nothing: each sequence is what it was, less the old
\* timestamps popped from its front
NotRecorded(e) ==
    /\ IsSuffix(ip_requests'[e.ip], ip_requests[e.ip])
    /\ \A u \in DOMAIN user_requests : IsSuffix(user_requests'[u], user_requests[u])

\* No call touches the sequences of other addresses and users
OthersKept(e) ==
    /\ \A ip \in DOMAIN ip_requests : ip # e.ip => ip_requests'[ip] = ip_requests[ip]
    /\ \A u \in DOMAIN user_requests : u # e.user_id => user_requests'[u] = user_requests[u]

ActiveBlocks(blocked) == {c \in DOMAIN blocked : rl_now < blocked[c]}

\* C37: a check made while its address or user is under a block that has
\* not expired is answered BLOCK_TEMPORARY and changes neither the recorded
\* requests nor any unexpired block, and no step at all moves the expiry of
\* an unexpired block: a block ends block_duration_seconds after the check
\* that set it, whatever traffic arrives meanwhile.
C37_BlockedChecksChangeNothing ==
    [][/\ \A ip \in ActiveBlocks(rl_blocked_ips) :
             ip \in DOMAIN rl_blocked_ips' /\ rl_blocked_ips'[ip] = rl_blocked_ips[ip]
       /\ \A u \in ActiveBlocks(rl_blocked_users) :
             u \in DOMAIN rl_blocked_users' /\ rl_blocked_users'[u] = rl_blocked_users[u]
       /\ (IsRateCheck /\ ActiveBlock(LastCheck.ip, LastCheck.user_id))
             => /\ LastCheck.action = BLOCK_TEMPORARY
                /\ ip_requests' = ip_requests
                /\ user_requests' = user_requests
                /\ DOMAIN rl_blocked_ips' \subseteq DOMAIN rl_blocked_ips
                /\ DOMAIN rl_blocked_users' \subseteq DOMAIN rl_blocked_users]_vars

\* The third check of an address at t = 0 set a block; a check made a minute
\* later, during the block, found the expiry and the recorded requests as
\* they were
C37_Witness ==
    /\ Len(rl_history) = 4
    /\ rl_history[1].action = ALLOW /\ rl_history[2].action = ALLOW
    /\ rl_history[3].action = BLOCK_TEMPORARY /\ rl_history[3].t = 0
    /\ rl_history[4].action = BLOCK_TEMPORARY /\ rl_history[4].t = RateTickSeconds
    /\ \A k \in 1..4 : rl_history[k].ip = "10.0.0.1" /\ rl_history[k].user_id = None
    /\ rl_blocked_ips = ("10.0.0.1" :> rl_rules[rl_history[3].rule].block_duration_seconds)
    /\ rl_blocked_ips["10.0.0.1"] > RateTickSeconds
    /\ ip_requests["10.0.0.1"] = <<0, 0>>

C39_ProgressInRange ==
    \A id \in DOMAIN tasks :
        /\ tasks[id].progress \in 0..100
        /\ tasks[id].status = COMPLETED => tasks[id].progress = 100

\* One task is COMPLETED at 100 and one is PROCESSING at 0, the value a
\* report of -5 is stored as
C39_Witness ==
    /\ DOMAIN tasks = {1, 2}
    /\ tasks[1].status = COMPLETED /\ tasks[1].progress = 100
    /\ tasks[2].status = PROCESSING /\ tasks[2].progress = 0

\* TaskManager.get_queue_status: the snapshot it returns in the current state
\* (it reads and never suspends)
CountStatus(status) == Cardinality({id \in DOMAIN tasks : tasks[id].status = status})

get_queue_status ==
    [queue_size |-> Len(task_queue),
     active_tasks |-> Cardinality(active_tasks),
     max_concurrent |-> max_concurrent_tasks,
     total_tasks |-> Cardinality(DOMAIN tasks),
     pending |-> CountStatus(PENDING),
     processing |-> Cardinality(active_tasks),
     completed |-> CountStatus(COMPLETED),
     failed |-> CountStatus(FAILED),
     is_processing |-> processing]

\* C40: every get_queue_status snapshot agrees with the task store at that
\* instant: processing (and active_tasks) is the number of PROCESSING tasks,
\* pending the number of PENDING tasks, and no task is counted twice, so the
\* four counts together do not exceed the number of tasks.
C40_SnapshotConsistent ==
    LET snapshot == get_queue_status
    IN /\ snapshot.processing = Cardinality({id \in DOMAIN tasks : tasks[id].status = PROCESSING})
       /\ snapshot.active_tasks = snapshot.processing
       /\ snapshot.pending = Cardinality({id \in DOMAIN tasks : tasks[id].status = PENDING})
       /\ snapshot.pending + snapshot.processing + snapshot.completed + snapshot.failed
             <= snapshot.total_tasks

====
